---- MODULE Spec2Model ----
(***************************************************************************)
(* State-machine model of the spending-limits contract                     *)
(* (contracts/spending-limits/src/lib.rs): the batch limit-update          *)
(* processor and the daily/monthly enforcement engine, over the host's     *)
(* instance and persistent storage and the ledger clock.                   *)
(*                                                                         *)
(* Every public operation is one action.  A call that aborts (panic or     *)
(* panic_with_error!) leaves the storage as it was: the host discards the  *)
(* writes of a failed invocation.  The outcome of the last call is kept in *)
(* `call`, the value it returned in `result`, and the notifications its    *)
(* code published in `events`.                                             *)
(***************************************************************************)
EXTENDS Integers, Sequences, FiniteSets, TLC

VARIABLES
    admin,                    \* instance storage, DataKey::Admin: <<>> (absent) or <<address>>
    last_batch_id,            \* instance storage, DataKey::LastBatchId (0 when absent)
    total_limits_updated,     \* instance storage, DataKey::TotalLimitsUpdated (0 when absent)
    total_batches_processed,  \* instance storage, DataKey::TotalBatchesProcessed (0 when absent)
    limits,                   \* persistent storage, DataKey::SpendingLimit(user) -> SpendingLimit
    daily,                    \* persistent storage, DataKey::DailySpending(user, day_id) -> i128
    monthly,                  \* persistent storage, DataKey::MonthlySpending(user, month_id) -> i128
    now,                      \* env.ledger().timestamp()
    sequence,                 \* env.ledger().sequence()
    call,                     \* the last call: operation, arguments, outcome
    result,                   \* <<>> or <<BatchLimitResult>> returned by the last call
    events,                   \* notifications published by the code of the last call
    delegations,              \* delegation contract, Allowance(owner, delegate) -> Delegation
    payments,                 \* recurring-payment contract, DataKey::Payment(id) -> RecurringPayment
    payment_count,            \* recurring-payment contract, DataKey::PaymentCount (0 when absent)
    balances,                 \* the token contract: balance of each address
    timelocks,                \* transactions contract, TimelockDataKey::TimelockedTx(id) -> TimelockedTx
    timelock_id_counter,      \* transactions contract, TimelockDataKey::NextTimelockId (0 when absent)
    tx_admin,                 \* transactions contract, its admin: <<>> (absent) or <<address>>
    tx_balances,              \* transactions contract, the balance it keeps for each address
    budget_admin,             \* shared-budgets contract, DataKey::Admin: <<>> (absent) or <<address>>
    budgets,                  \* shared-budgets contract, DataKey::Budget(id) -> Budget
    budget_members,           \* shared-budgets contract, the (id, member) with DataKey::BudgetMember set
    total_budgets_created,    \* shared-budgets contract, DataKey::TotalBudgetsCreated (0 when absent)
    contributions,            \* shared-budgets contract, DataKey::BudgetContribution(id, n) -> BudgetContribution
    total_contributions_processed, \* shared-budgets contract, DataKey::TotalContributionsProcessed
    budget_contributed,       \* history: budget id -> the sum of the successful contributions to it
    budget_spent,             \* history: budget id -> the sum of the successful spends from it
    fraud_totals              \* fraud contract, ("user_daily", user, day) -> i128

vars == <<admin, last_batch_id, total_limits_updated, total_batches_processed,
          limits, daily, monthly, now, sequence, call, result, events,
          delegations, payments, payment_count, balances,
          timelocks, timelock_id_counter, tx_admin, tx_balances,
          budget_admin, budgets, budget_members, total_budgets_created,
          contributions, total_contributions_processed,
          budget_contributed, budget_spent, fraud_totals>>

storage == <<admin, last_batch_id, total_limits_updated, total_batches_processed,
             limits, daily, monthly>>

\* The storage of the delegation contract and of the recurring-payment
\* contract (with the token it moves): separate contracts, which no operation
\* of the spending-limits contract touches.
delegation_storage == <<delegations>>
recurring_storage == <<payments, payment_count, balances>>
\* The storage of the transactions contract (time-locked transfers), of the
\* shared-budgets contract and of the fraud contract.
timelock_storage == <<timelocks, timelock_id_counter, tx_admin, tx_balances>>
budget_storage == <<budget_admin, budgets, budget_members, total_budgets_created,
                    contributions, total_contributions_processed>>
\* What was contributed to and spent from each budget id so far: no storage
\* of the contract, written by no code, kept to state what the balances
\* are compared with.
budget_history == <<budget_contributed, budget_spent>>
fraud_storage == <<fraud_totals>>
more_contracts == <<timelock_storage, budget_storage, budget_history, fraud_storage>>
other_contracts == <<delegation_storage, recurring_storage, more_contracts>>

----------------------------------------------------------------------------
(* Bounds of the model.                                                    *)

\* Largest representable amount (i128::MAX in the contract); the width is
\* reduced so that sums stay within the range of the model checker.
I128_MAX == 1000000
\* Ledger closes explored (the sequence number is capped at this value).
MaxSequence == 1
\* Batches explored (last_batch_id is capped at this value).
MaxBatches == 2
\* Longest batch drawn from all combinations of requests.
MaxBatchLen == 2
\* enforce_spending_limit is explored while the day's counter is at most this.
MaxTracked == 5

----------------------------------------------------------------------------
(* Program constants.                                                      *)

SECONDS_PER_DAY == 86400
SECONDS_PER_MONTH == SECONDS_PER_DAY * 30

\* SpendingLimitError (repr u32).
NotInitialized == 1
Unauthorized == 2
InvalidBatch == 3
EmptyBatch == 4
BatchTooLarge == 5
DailyLimitExceeded == 6
MonthlyLimitExceeded == 7
InvalidAmount == 8

\* types.rs of the spending-limits crate: the largest accepted batch, the
\* per-item validation codes.
MAX_BATCH_SIZE == 100
ErrorCode_INVALID_AMOUNT == "INVALID_AMOUNT"
ErrorCode_INVALID_CATEGORY == "INVALID_CATEGORY"

\* Threshold of the high-value notification (10_000_000_000_000_000 in the
\* contract), reduced with the width of the amounts.
HIGH_VALUE_THRESHOLD == 10000

----------------------------------------------------------------------------
(* Inputs.                                                                 *)

Admins == {"a1", "a2"}
Callers == Admins
WellFormedCategories == {"food"}
ClockSteps == {SECONDS_PER_DAY \div 2, SECONDS_PER_DAY, SECONDS_PER_MONTH}

\* Funds of the sender of the recurring payments, in the token.
MaxFunds == 7
\* The token balances before any payment.
\* "pool" is the address of the shared-budgets contract.
InitialBalances == [a \in {"alice", "bob", "pool"} |-> IF a = "alice" THEN MaxFunds ELSE 0]

----------------------------------------------------------------------------
(* Storage accessors: get(key).unwrap_or(0), set(key, value).              *)

GetOr0(store, key) == IF key \in DOMAIN store THEN store[key] ELSE 0

Put(store, key, value) == (key :> value) @@ store

EmptyStore == [k \in {} |-> 0]

\* get(key) as an Option: <<>> when the key is absent, <<value>> when stored.
StoredAt(store, key) == IF key \in DOMAIN store THEN <<store[key]>> ELSE <<>>

DayId(t) == t \div SECONDS_PER_DAY
MonthId(t) == t \div SECONDS_PER_MONTH

\* i128::checked_add: <<>> on overflow, <<sum>> otherwise.
checked_add(a, b) ==
    IF a + b > I128_MAX \/ a + b < -I128_MAX - 1 THEN <<>> ELSE <<a + b>>

----------------------------------------------------------------------------
(* Outcome of a call.                                                      *)

NoCall == [op |-> "none", caller |-> "", user |-> "", amount |-> 0,
           requests |-> <<>>, payment_id |-> 0, interval |-> 0, start_time |-> 0,
           budget_id |-> 0, timelock_id |-> 0,
           status |-> "ok", code |-> 0, msg |-> ""]

Ok(c) == [c EXCEPT !.status = "ok", !.code = 0, !.msg = ""]
\* panic_with_error!(&env, code)
Error(c, code) == [c EXCEPT !.status = "error", !.code = code, !.msg = ""]
\* panic!(msg), expect(msg), a failed require_auth
Panic(c, msg) == [c EXCEPT !.status = "panic", !.code = 0, !.msg = msg]

\* The transactions, shared-budgets and fraud contracts after deployment:
\* nothing stored.
InitMoreContracts ==
    /\ timelocks = EmptyStore
    /\ timelock_id_counter = 0
    /\ tx_admin = <<>>
    /\ tx_balances = [a \in {"alice", "bob"} |-> 0]
    /\ budget_admin = <<>>
    /\ budgets = EmptyStore
    /\ budget_members = {}
    /\ total_budgets_created = 0
    /\ contributions = EmptyStore
    /\ total_contributions_processed = 0
    /\ budget_contributed = EmptyStore
    /\ budget_spent = EmptyStore
    /\ fraud_totals = EmptyStore

----------------------------------------------------------------------------
Init ==
    /\ admin = <<>>
    /\ last_batch_id = 0
    /\ total_limits_updated = 0
    /\ total_batches_processed = 0
    /\ limits = EmptyStore
    /\ daily = EmptyStore
    /\ monthly = EmptyStore
    /\ now = 0
    /\ sequence = 0
    /\ call = NoCall
    /\ result = <<>>
    /\ events = <<>>
    /\ delegations = EmptyStore
    /\ payments = EmptyStore
    /\ payment_count = 0
    /\ balances = InitialBalances
    /\ InitMoreContracts

\* The host closes a ledger: the timestamp and the sequence number advance.
Tick(dt) ==
    /\ sequence < MaxSequence
    /\ UNCHANGED other_contracts
    /\ now' = now + dt
    /\ sequence' = sequence + 1
    /\ call' = [NoCall EXCEPT !.op = "tick"]
    /\ result' = <<>>
    /\ events' = <<>>
    /\ UNCHANGED storage

initialize(a) ==
    LET c == [NoCall EXCEPT !.op = "initialize", !.caller = a] IN
    /\ UNCHANGED other_contracts
    /\ result' = <<>>
    /\ events' = <<>>
    /\ UNCHANGED <<limits, daily, monthly, now, sequence>>
    /\ IF admin # <<>>
       THEN /\ call' = Panic(c, "Contract already initialized")
            /\ UNCHANGED <<admin, last_batch_id, total_limits_updated,
                           total_batches_processed>>
       ELSE /\ call' = Ok(c)
            /\ admin' = <<a>>
            /\ last_batch_id' = 0
            /\ total_limits_updated' = 0
            /\ total_batches_processed' = 0

----------------------------------------------------------------------------
(* Enforcement engine: enforce_spending_limit.                             *)

\* Mutant of daily_limit_of: the floor of 1 is missing.
daily_limit_of_no_floor(monthly_limit) ==
    IF monthly_limit <= 0 THEN 0 ELSE monthly_limit \div 30

\* Mutant of daily_limit_of: the 30-day split is rounded up.
daily_limit_of_rounded_up(monthly_limit) ==
    IF monthly_limit <= 0 THEN 0 ELSE (monthly_limit + 29) \div 30

\* The daily cap derived from the monthly cap (a 30-day split).
daily_limit_of(monthly_limit) ==
    IF monthly_limit <= 0
    THEN 0
    ELSE LET base == monthly_limit \div 30 IN
         IF base = 0 THEN 1 ELSE base

\* Headroom reported by the limit-exceeded notification.
remaining_of(cap, current) == IF current >= cap THEN 0 ELSE cap - current

\* Mutant of enforce_check: the daily cap compared with >= (a spend that
\* reaches the cap exactly is refused).
enforce_check_strict(limit, current_daily, current_monthly, amount) ==
    IF amount > I128_MAX - current_daily \/ amount > I128_MAX - current_monthly
    THEN InvalidBatch
    ELSE IF current_daily + amount >= daily_limit_of(limit.monthly_limit)
    THEN DailyLimitExceeded
    ELSE IF current_monthly + amount > limit.monthly_limit
    THEN MonthlyLimitExceeded
    ELSE 0

\* Mutant of enforce_check: the monthly violation is reported first.
enforce_check_monthly_first(limit, current_daily, current_monthly, amount) ==
    IF amount > I128_MAX - current_daily \/ amount > I128_MAX - current_monthly
    THEN InvalidBatch
    ELSE IF current_monthly + amount > limit.monthly_limit
    THEN MonthlyLimitExceeded
    ELSE IF current_daily + amount > daily_limit_of(limit.monthly_limit)
    THEN DailyLimitExceeded
    ELSE 0

\* Mutant of enforce_check: the sums saturate at the largest amount and the
\* cap checks go on.
enforce_check_saturating(limit, current_daily, current_monthly, amount) ==
    LET new_daily == IF amount > I128_MAX - current_daily
                     THEN I128_MAX ELSE current_daily + amount
        new_monthly == IF amount > I128_MAX - current_monthly
                       THEN I128_MAX ELSE current_monthly + amount
    IN  IF new_daily > daily_limit_of(limit.monthly_limit) THEN DailyLimitExceeded
        ELSE IF new_monthly > limit.monthly_limit THEN MonthlyLimitExceeded
        ELSE 0

\* Mutant of enforce_check: the daily cap is not checked.
enforce_check_monthly_only(limit, current_daily, current_monthly, amount) ==
    LET new_daily == checked_add(current_daily, amount)
        new_monthly == checked_add(current_monthly, amount)
    IN  IF new_daily = <<>> THEN InvalidBatch
        ELSE IF new_monthly = <<>> THEN InvalidBatch
        ELSE IF new_monthly[1] > limit.monthly_limit THEN MonthlyLimitExceeded
        ELSE 0

\* The checks between loading the counters and persisting them: 0 when the
\* spend is accepted, otherwise the code the call aborts with.
enforce_check(limit, current_daily, current_monthly, amount) ==
    LET new_daily == checked_add(current_daily, amount)
        new_monthly == checked_add(current_monthly, amount)
    IN  IF new_daily = <<>> THEN InvalidBatch
        ELSE IF new_monthly = <<>> THEN InvalidBatch
        ELSE LET daily_limit == daily_limit_of(limit.monthly_limit)
                 daily_ok == ~(new_daily[1] > daily_limit)
                 monthly_ok == ~(new_monthly[1] > limit.monthly_limit)
             IN  IF ~daily_ok \/ ~monthly_ok
                 THEN IF ~daily_ok THEN DailyLimitExceeded
                                   ELSE MonthlyLimitExceeded
                 ELSE 0

\* Mutant of enforce_limit_update: the period marker is refreshed, the
\* spending is not.
enforce_limit_update_stale(limit, new_monthly, month_id) ==
    [limit EXCEPT !.updated_at = month_id]

\* The limit record written back by an accepted spend.
enforce_limit_update(limit, new_monthly, month_id) ==
    [limit EXCEPT !.current_spending = new_monthly, !.updated_at = month_id]

limit_exceeded(user, amount, remaining_daily, remaining_monthly) ==
    [event |-> "limit_exceeded", user |-> user, amount |-> amount,
     remaining_daily |-> remaining_daily, remaining_monthly |-> remaining_monthly]

\* Mutant of enforce_commit: the month's counter is overwritten with the
\* amount instead of the new total.
enforce_commit_overwrite(user, limit, daily_key, monthly_key, new_daily, new_monthly) ==
    [daily |-> Put(daily, daily_key, new_daily),
     monthly |-> Put(monthly, monthly_key, new_monthly - GetOr0(monthly, monthly_key)),
     limits |-> Put(limits, user,
                    enforce_limit_update(limit, new_monthly, monthly_key[2]))]

\* Mutant of enforce_commit: the user's counters of earlier days are removed
\* when a counter is written.
enforce_commit_clears_old(user, limit, daily_key, monthly_key, new_daily, new_monthly) ==
    LET kept == {k \in DOMAIN daily : k[1] # user \/ k[2] = daily_key[2]} IN
    [daily |-> Put([k \in kept |-> daily[k]], daily_key, new_daily),
     monthly |-> Put(monthly, monthly_key, new_monthly),
     limits |-> Put(limits, user,
                    enforce_limit_update(limit, new_monthly, monthly_key[2]))]

\* Mutant of enforce_commit: the day's counter is written, the month's is not.
enforce_commit_skips_month(user, limit, daily_key, monthly_key, new_daily, new_monthly) ==
    [daily |-> Put(daily, daily_key, new_daily),
     monthly |-> monthly,
     limits |-> Put(limits, user,
                    enforce_limit_update(limit, new_monthly, monthly_key[2]))]

\* Mutant of enforce_commit: the day's counter is keyed by the day alone, so
\* the counters every user has for that day take the new total.
enforce_commit_shared_day(user, limit, daily_key, monthly_key, new_daily, new_monthly) ==
    [daily |-> [k \in DOMAIN daily \cup {daily_key} |->
                  IF k[2] = daily_key[2] THEN new_daily ELSE daily[k]],
     monthly |-> Put(monthly, monthly_key, new_monthly),
     limits |-> Put(limits, user,
                    enforce_limit_update(limit, new_monthly, monthly_key[2]))]

\* The persistent storage after the writes of an accepted spend.
enforce_commit(user, limit, daily_key, monthly_key, new_daily, new_monthly) ==
    [daily |-> Put(daily, daily_key, new_daily),
     monthly |-> Put(monthly, monthly_key, new_monthly),
     limits |-> Put(limits, user,
                    enforce_limit_update(limit, new_monthly, monthly_key[2]))]

\* Mutant of enforce_abort: the day's counter is written before the abort
\* and survives it.
enforce_abort_partial(user, limit, daily_key, monthly_key, amount) ==
    [daily |-> Put(daily, daily_key, GetOr0(daily, daily_key) + amount),
     monthly |-> monthly, limits |-> limits]

\* The persistent storage after a spend that aborted: the host keeps no write.
enforce_abort(user, limit, daily_key, monthly_key, amount) ==
    [daily |-> daily, monthly |-> monthly, limits |-> limits]

\* Mutant of amount_check: only a negative amount is refused.
amount_check_negative_only(amount) == IF amount < 0 THEN InvalidAmount ELSE 0

\* The validation of the amount: 0 or the code the call aborts with.
amount_check(amount) == IF amount <= 0 THEN InvalidAmount ELSE 0

\* Mutant of enforce_unrestricted: the spend of a user without an enforced
\* limit is added to the period counters.
enforce_unrestricted_counted(user, daily_key, monthly_key, amount) ==
    [daily |-> Put(daily, daily_key, GetOr0(daily, daily_key) + amount),
     monthly |-> Put(monthly, monthly_key, GetOr0(monthly, monthly_key) + amount),
     limits |-> limits]

\* The persistent storage after the early return taken when no limit is
\* stored for the user or the stored limit is inactive: nothing is written.
enforce_unrestricted(user, daily_key, monthly_key, amount) ==
    [daily |-> daily, monthly |-> monthly, limits |-> limits]

enforce_spending_limit(user, amount) ==
    LET c == [NoCall EXCEPT !.op = "enforce_spending_limit",
                            !.user = user, !.amount = amount]
        day_id == DayId(now)
        month_id == MonthId(now)
        daily_key == <<user, day_id>>
        monthly_key == <<user, month_id>>
        current_daily == GetOr0(daily, daily_key)
        current_monthly == GetOr0(monthly, monthly_key)
    IN
    /\ current_daily <= MaxTracked
    /\ UNCHANGED other_contracts
    /\ result' = <<>>
    /\ UNCHANGED <<admin, last_batch_id, total_limits_updated,
                   total_batches_processed, now, sequence>>
    /\ IF amount_check(amount) # 0
       THEN /\ call' = Error(c, amount_check(amount))
            /\ events' = <<>>
            /\ UNCHANGED <<limits, daily, monthly>>
       ELSE IF user \notin DOMAIN limits \/ ~limits[user].is_active
       THEN LET after == enforce_unrestricted(user, daily_key, monthly_key, amount) IN
            /\ call' = Ok(c)
            /\ events' = <<>>
            /\ daily' = after.daily
            /\ monthly' = after.monthly
            /\ limits' = after.limits
       ELSE LET limit == limits[user]
                code == enforce_check(limit, current_daily, current_monthly, amount)
                daily_limit == daily_limit_of(limit.monthly_limit)
                after == IF code = 0
                         THEN enforce_commit(user, limit, daily_key, monthly_key,
                                             current_daily + amount,
                                             current_monthly + amount)
                         ELSE enforce_abort(user, limit, daily_key, monthly_key, amount)
            IN  /\ call' = IF code = 0 THEN Ok(c) ELSE Error(c, code)
                /\ events' = IF code \in {DailyLimitExceeded, MonthlyLimitExceeded}
                             THEN <<limit_exceeded(user, amount,
                                        remaining_of(daily_limit, current_daily),
                                        remaining_of(limit.monthly_limit, current_monthly))>>
                             ELSE <<>>
                /\ daily' = after.daily
                /\ monthly' = after.monthly
                /\ limits' = after.limits

----------------------------------------------------------------------------
(* Validation (validation.rs of the spending-limits crate).                *)

\* First failure wins: the monthly limit must be positive, then the category
\* must be well formed.  "Ok" or the error code.
validate_limit_request(request) ==
    IF request.monthly_limit <= 0 THEN ErrorCode_INVALID_AMOUNT
    ELSE IF request.category \notin WellFormedCategories THEN ErrorCode_INVALID_CATEGORY
    ELSE "Ok"

----------------------------------------------------------------------------
(* Notifications (LimitEvents).                                            *)

batch_started(batch_id, request_count) ==
    [event |-> "batch_started", batch_id |-> batch_id, request_count |-> request_count]

limit_updated(batch_id, limit) ==
    [event |-> "limit_updated", batch_id |-> batch_id, limit |-> limit]

limit_update_failed(batch_id, user, error_code) ==
    [event |-> "limit_update_failed", batch_id |-> batch_id, user |-> user,
     error_code |-> error_code]

high_value_limit(batch_id, user, monthly_limit) ==
    [event |-> "high_value_limit", batch_id |-> batch_id, user |-> user,
     monthly_limit |-> monthly_limit]

batch_completed(batch_id, successful, failed, total_value) ==
    [event |-> "batch_completed", batch_id |-> batch_id, successful |-> successful,
     failed |-> failed, total_value |-> total_value]

----------------------------------------------------------------------------
(* Batch processor: batch_update_spending_limits.                          *)

\* Mutant of require_admin: the caller is not compared with the stored admin.
require_admin_any(caller) ==
    IF admin = <<>> THEN "not_initialized" ELSE ""

\* require_admin: "" when the caller is the stored admin, otherwise how the
\* call aborts.
require_admin(caller) ==
    IF admin = <<>> THEN "not_initialized"
    ELSE IF caller # admin[1] THEN "unauthorized"
    ELSE ""

\* Mutant of batch_size_check: the empty batch is let through.
batch_size_check_no_empty(request_count) ==
    IF request_count > MAX_BATCH_SIZE THEN BatchTooLarge ELSE 0

\* The batch-size checks: 0 or the code the call aborts with.
batch_size_check(request_count) ==
    IF request_count = 0 THEN EmptyBatch
    ELSE IF request_count > MAX_BATCH_SIZE THEN BatchTooLarge
    ELSE 0

\* Mutant of next_batch_id: the increment is missing.
next_batch_id_same(last) == last

next_batch_id(last) == last + 1

\* The limit built for a request that passed validation.
new_limit(request, current_ledger) ==
    [user |-> request.user,
     monthly_limit |-> request.monthly_limit,
     current_spending |-> 0,
     category |-> request.category,
     updated_at |-> current_ledger,
     is_active |-> TRUE]

\* Mutant of accumulate: on overflow the limit is left out of the total.
accumulate_keep(total_limits_value, monthly_limit) ==
    LET sum == checked_add(total_limits_value, monthly_limit) IN
    IF sum = <<>> THEN total_limits_value ELSE sum[1]

\* total_limits_value.checked_add(monthly_limit).unwrap_or(i128::MAX)
accumulate(total_limits_value, monthly_limit) ==
    LET sum == checked_add(total_limits_value, monthly_limit) IN
    IF sum = <<>> THEN I128_MAX ELSE sum[1]

\* The loop's state before the first request.
loop_start(batch_id, request_count) ==
    [results |-> <<>>, successful_count |-> 0, failed_count |-> 0,
     total_limits_value |-> 0, limits |-> limits,
     events |-> <<batch_started(batch_id, request_count)>>]

\* Mutant of on_success: the spending of the limit being replaced is carried
\* over into the new limit.
on_success_carry(acc, request, batch_id, current_ledger) ==
    LET fresh == new_limit(request, current_ledger)
        limit == IF request.user \in DOMAIN acc.limits
                 THEN [fresh EXCEPT !.current_spending =
                                        acc.limits[request.user].current_spending]
                 ELSE fresh
    IN
    [results |-> Append(acc.results, [tag |-> "Success", limit |-> limit]),
     successful_count |-> acc.successful_count + 1,
     failed_count |-> acc.failed_count,
     total_limits_value |-> accumulate(acc.total_limits_value, request.monthly_limit),
     limits |-> Put(acc.limits, request.user, limit),
     events |-> acc.events \o <<limit_updated(batch_id, limit)>>]

\* Mutant of on_success: the high-value notification is published only
\* above the threshold, not at it.
on_success_high_value_strict(acc, request, batch_id, current_ledger) ==
    LET limit == new_limit(request, current_ledger) IN
    [results |-> Append(acc.results, [tag |-> "Success", limit |-> limit]),
     successful_count |-> acc.successful_count + 1,
     failed_count |-> acc.failed_count,
     total_limits_value |-> accumulate(acc.total_limits_value, request.monthly_limit),
     limits |-> Put(acc.limits, request.user, limit),
     events |-> acc.events \o <<limit_updated(batch_id, limit)>>
                \o (IF request.monthly_limit > HIGH_VALUE_THRESHOLD
                    THEN <<high_value_limit(batch_id, request.user, request.monthly_limit)>>
                    ELSE <<>>)]

\* One request that passed validation.
on_success(acc, request, batch_id, current_ledger) ==
    LET limit == new_limit(request, current_ledger) IN
    [results |-> Append(acc.results, [tag |-> "Success", limit |-> limit]),
     successful_count |-> acc.successful_count + 1,
     failed_count |-> acc.failed_count,
     total_limits_value |-> accumulate(acc.total_limits_value, request.monthly_limit),
     limits |-> Put(acc.limits, request.user, limit),
     events |-> acc.events \o <<limit_updated(batch_id, limit)>>
                \o (IF request.monthly_limit >= HIGH_VALUE_THRESHOLD
                    THEN <<high_value_limit(batch_id, request.user, request.monthly_limit)>>
                    ELSE <<>>)]

\* Mutant of on_failure: the failure is recorded but not counted.
on_failure_uncounted(acc, request, batch_id, error_code) ==
    [acc EXCEPT !.results = Append(acc.results, [tag |-> "Failure", user |-> request.user,
                                                 error_code |-> error_code])]

\* Mutant of on_failure: the limit of the request is stored, inactive, although
\* the request failed.
on_failure_writes(acc, request, batch_id, error_code) ==
    [acc EXCEPT !.results = Append(acc.results, [tag |-> "Failure", user |-> request.user,
                                                 error_code |-> error_code]),
                !.failed_count = acc.failed_count + 1,
                !.limits = Put(acc.limits, request.user,
                               [new_limit(request, 0) EXCEPT !.is_active = FALSE])]

\* Mutant of on_failure: no notification is published for the failure.
on_failure_silent(acc, request, batch_id, error_code) ==
    [acc EXCEPT !.results = Append(acc.results, [tag |-> "Failure", user |-> request.user,
                                                 error_code |-> error_code]),
                !.failed_count = acc.failed_count + 1]

\* One request that failed validation.
on_failure(acc, request, batch_id, error_code) ==
    [results |-> Append(acc.results, [tag |-> "Failure", user |-> request.user,
                                      error_code |-> error_code]),
     successful_count |-> acc.successful_count,
     failed_count |-> acc.failed_count + 1,
     total_limits_value |-> acc.total_limits_value,
     limits |-> acc.limits,
     events |-> acc.events \o <<limit_update_failed(batch_id, request.user, error_code)>>]

\* Mutant of process_request: validation is skipped, every request is
\* stored.
process_request_unvalidated(acc, request, batch_id, current_ledger) ==
    on_success(acc, request, batch_id, current_ledger)

\* Mutant of process_request: once a request has failed, every later request
\* of the batch is failed too.
process_request_poisoned(acc, request, batch_id, current_ledger) ==
    LET v == validate_limit_request(request) IN
    IF v = "Ok" /\ acc.failed_count = 0
    THEN on_success(acc, request, batch_id, current_ledger)
    ELSE on_failure(acc, request, batch_id,
                    IF v = "Ok" THEN ErrorCode_INVALID_AMOUNT ELSE v)

\* One iteration of the loop.
process_request(acc, request, batch_id, current_ledger) ==
    LET v == validate_limit_request(request) IN
    IF v = "Ok"
    THEN on_success(acc, request, batch_id, current_ledger)
    ELSE on_failure(acc, request, batch_id, v)

\* The loop over requests[lo..hi], in input order: the first half of the
\* range, then the second half from the state the first half left.  Halving
\* keeps the evaluation depth logarithmic in the length of the batch.
RECURSIVE process_requests(_, _, _, _, _, _)
process_requests(acc, requests, lo, hi, batch_id, current_ledger) ==
    IF lo > hi THEN acc
    ELSE IF lo = hi
    THEN process_request(acc, requests[lo], batch_id, current_ledger)
    ELSE LET mid == (lo + hi) \div 2 IN
         CHOOSE out \in
             {process_requests(first, requests, mid + 1, hi, batch_id, current_ledger) :
                 first \in {process_requests(acc, requests, lo, mid, batch_id,
                                             current_ledger)}}
             : TRUE

\* Mutant of avg_limit_amount_of: the mean is rounded up.
avg_limit_amount_of_rounded_up(total_limits_value, successful_count) ==
    IF successful_count > 0
    THEN (total_limits_value + successful_count - 1) \div successful_count
    ELSE 0

avg_limit_amount_of(total_limits_value, successful_count) ==
    IF successful_count > 0 THEN total_limits_value \div successful_count ELSE 0

batch_metrics(request_count, acc, current_ledger) ==
    [total_requests |-> request_count,
     successful_updates |-> acc.successful_count,
     failed_updates |-> acc.failed_count,
     total_limits_value |-> acc.total_limits_value,
     avg_limit_amount |-> avg_limit_amount_of(acc.total_limits_value, acc.successful_count),
     processed_at |-> current_ledger]

batch_result(batch_id, request_count, acc, current_ledger) ==
    [batch_id |-> batch_id,
     total_requests |-> request_count,
     successful |-> acc.successful_count,
     failed |-> acc.failed_count,
     results |-> acc.results,
     metrics |-> batch_metrics(request_count, acc, current_ledger)]

\* Mutant of batch_totals: a batch without a successful request is not
\* counted as processed.
batch_totals_skip_empty(batch_id, successful_count) ==
    [last_batch_id |-> batch_id,
     total_limits_updated |-> total_limits_updated + successful_count,
     total_batches_processed |-> IF successful_count = 0
                                 THEN total_batches_processed
                                 ELSE total_batches_processed + 1]

\* The three running totals written after the loop.
batch_totals(batch_id, successful_count) ==
    [last_batch_id |-> batch_id,
     total_limits_updated |-> total_limits_updated + successful_count,
     total_batches_processed |-> total_batches_processed + 1]

\* Mutant of batch_counters: the period counters of a user whose limit is
\* replaced are removed.
batch_counters_reset(acc) ==
    LET replaced == {acc.results[i].limit.user :
                       i \in {j \in DOMAIN acc.results : acc.results[j].tag = "Success"}}
    IN  [daily |-> [k \in {x \in DOMAIN daily : x[1] \notin replaced} |-> daily[k]],
         monthly |-> [k \in {x \in DOMAIN monthly : x[1] \notin replaced} |-> monthly[k]]]

\* The period counters after the loop: it writes SpendingLimit keys only.
batch_counters(acc) == [daily |-> daily, monthly |-> monthly]

batch_update_spending_limits(caller, requests) ==
    LET c == [NoCall EXCEPT !.op = "batch_update_spending_limits",
                            !.caller = caller, !.requests = requests]
        auth == require_admin(caller)
        request_count == Len(requests)
        size == batch_size_check(request_count)
        batch_id == next_batch_id(last_batch_id)
        current_ledger == sequence
        acc == process_requests(loop_start(batch_id, request_count), requests,
                                1, request_count, batch_id, current_ledger)
    IN
    /\ last_batch_id < MaxBatches
    /\ UNCHANGED <<admin, now, sequence, other_contracts>>
    /\ IF auth # "" \/ size # 0
       THEN /\ call' = IF auth = "not_initialized" THEN Panic(c, "Contract not initialized")
                       ELSE IF auth = "unauthorized" THEN Error(c, Unauthorized)
                       ELSE Error(c, size)
            /\ result' = <<>>
            /\ events' = <<>>
            /\ UNCHANGED <<last_batch_id, total_limits_updated,
                           total_batches_processed, limits, daily, monthly>>
       ELSE /\ call' = Ok(c)
            /\ daily' = batch_counters(acc).daily
            /\ monthly' = batch_counters(acc).monthly
            /\ result' = <<batch_result(batch_id, request_count, acc, current_ledger)>>
            /\ events' = acc.events \o
                         <<batch_completed(batch_id, acc.successful_count,
                                           acc.failed_count, acc.total_limits_value)>>
            /\ limits' = acc.limits
            /\ LET totals == batch_totals(batch_id, acc.successful_count) IN
               /\ last_batch_id' = totals.last_batch_id
               /\ total_limits_updated' = totals.total_limits_updated
               /\ total_batches_processed' = totals.total_batches_processed

set_admin(current_admin, new_admin) ==
    LET c == [NoCall EXCEPT !.op = "set_admin", !.caller = current_admin,
                            !.user = new_admin]
        auth == require_admin(current_admin)
    IN
    /\ result' = <<>>
    /\ events' = <<>>
    /\ UNCHANGED <<last_batch_id, total_limits_updated, total_batches_processed,
                   limits, daily, monthly, now, sequence, other_contracts>>
    /\ IF auth = "not_initialized"
       THEN call' = Panic(c, "Contract not initialized") /\ UNCHANGED admin
       ELSE IF auth = "unauthorized"
       THEN call' = Error(c, Unauthorized) /\ UNCHANGED admin
       ELSE call' = Ok(c) /\ admin' = <<new_admin>>

\* The read-only operations: the stored value, 0 when the key is absent.
get_last_batch_id == last_batch_id
get_total_limits_updated == total_limits_updated
get_total_batches_processed == total_batches_processed

\* Mutant of get_limit: current_spending of the returned limit is read from
\* the current month's counter instead of the stored record.
get_limit_live(user) ==
    IF user \in DOMAIN limits
    THEN <<[limits[user] EXCEPT !.current_spending =
                                   GetOr0(monthly, <<user, MonthId(now)>>)]>>
    ELSE <<>>

\* storage().persistent().get(SpendingLimit(user)): <<>> (None) or <<limit>>.
get_limit(user) == IF user \in DOMAIN limits THEN <<limits[user]>> ELSE <<>>

get_spending_limit(user) ==
    /\ call' = [NoCall EXCEPT !.op = "get_spending_limit", !.user = user]
    /\ result' = <<get_limit(user)>>
    /\ events' = <<>>
    /\ UNCHANGED <<storage, now, sequence, other_contracts>>

----------------------------------------------------------------------------
(* Inputs of the batch processor.                                          *)

Request(user, monthly_limit, category) ==
    [user |-> user, monthly_limit |-> monthly_limit, category |-> category]

\* Requests combined in every order up to MaxBatchLen.
CoreRequests ==
    {Request("u1", 0, "food"), Request("u2", 1, "food"), Request("u2", I128_MAX, "food")}

\* Requests tried alone.
EdgeRequests ==
    {Request("u1", 300, "food"), Request("u1", HIGH_VALUE_THRESHOLD, "food"),
     Request("u1", -1, "bad label"), Request("u2", 300, "bad label")}

RECURSIVE SeqsUpTo(_, _)
SeqsUpTo(S, n) ==
    IF n = 0 THEN {<<>>}
    ELSE LET shorter == SeqsUpTo(S, n - 1) IN
         shorter \cup {Append(q, x) : q \in {t \in shorter : Len(t) = n - 1}, x \in S}

\* A batch of n copies of one request.
Repeat(request, n) == [i \in 1..n |-> request]

Batches ==
    SeqsUpTo(CoreRequests, MaxBatchLen)
    \cup {<<r>> : r \in EdgeRequests}
    \cup {<<Request("u1", 300, "food"), Request("u2", 0, "food"), Request("u2", 1, "food")>>,
          Repeat(Request("u2", 300, "food"), MAX_BATCH_SIZE),
          Repeat(Request("u2", 300, "food"), MAX_BATCH_SIZE + 1)}

\* A caller other than the admin is rejected before the requests are looked
\* at: such calls are explored with these batches only.
ProbeBatches == {<<>>, <<Request("u1", 300, "food")>>}

\* Batches that configure the limits the enforcement engine is explored with.
ConfigBatches ==
    {<<Request("u1", 300, "food")>>, <<Request("u2", 1, "food")>>,
     <<Request("u1", 1, "food"), Request("u2", 1, "food")>>,
     <<Request("u1", 0, "food"), Request("u2", -1, "bad label")>>}

Spends == ({"u1"} \X {0, 5, 6, I128_MAX}) \cup {<<"u2", 1>>, <<"u2", -1>>}

Users == {"u1", "u2"}

\* The enforcement engine: every spend and every clock step, the limits set
\* by the admin with a few batches.
Next ==
    \/ \E dt \in ClockSteps : Tick(dt)
    \/ initialize("a1")
    \/ \E s \in Spends : enforce_spending_limit(s[1], s[2])
    \/ \E requests \in ConfigBatches : batch_update_spending_limits("a1", requests)
    \/ \E user \in Users : get_spending_limit(user)

Spec == Init /\ [][Next]_vars

\* No user named in the batch has a period counter yet: none of them has had
\* a spend accepted under a limit.
NoSpendYet(requests) ==
    \A i \in DOMAIN requests : \A k \in DOMAIN daily \cup DOMAIN monthly :
        k[1] # requests[i].user

\* The enforcement engine with limits that are not replaced once their user
\* has had a spend accepted.
NextFixedLimit ==
    \/ \E dt \in ClockSteps : Tick(dt)
    \/ initialize("a1")
    \/ \E s \in Spends : enforce_spending_limit(s[1], s[2])
    \/ \E requests \in ConfigBatches :
          /\ NoSpendYet(requests)
          /\ batch_update_spending_limits("a1", requests)

SpecFixedLimit == Init /\ [][NextFixedLimit]_vars

\* A month of spending under a limit that was set once: the limit of u1 was
\* set by the first batch and, on each of the first days of month 0, u1 has
\* spent as much as was accepted, up to the daily cap and the monthly limit;
\* the clock stands at the following day.
FilledDays == 29
MonthLimits == {30, 31, 60}
MonthSpends == {1, 2, 30, 31}

\* What was accepted on day d when every earlier day took the cap.
accepted_on(d, cap, m) ==
    IF (d + 1) * cap <= m THEN cap ELSE IF d * cap < m THEN m - d * cap ELSE 0

InitMonth ==
    \E m \in MonthLimits, filled \in {0, FilledDays} :
        LET cap == daily_limit_of(m)
            fresh == new_limit(Request("u1", m, "food"), 0)
            total == IF filled * cap <= m THEN filled * cap ELSE m
            days == {d \in 0 .. filled - 1 : accepted_on(d, cap, m) > 0}
        IN
        /\ admin = <<"a1">>
        /\ last_batch_id = 1
        /\ total_limits_updated = 1
        /\ total_batches_processed = 1
        /\ limits = Put(EmptyStore, "u1",
                        IF filled = 0 THEN fresh
                        ELSE enforce_limit_update(fresh, total, 0))
        /\ daily = [k \in {<<"u1", d>> : d \in days} |-> accepted_on(k[2], cap, m)]
        /\ monthly = IF filled = 0 THEN EmptyStore
                     ELSE Put(EmptyStore, <<"u1", 0>>, total)
        /\ now = filled * SECONDS_PER_DAY
        /\ sequence = 0
        /\ call = NoCall
        /\ result = <<>>
        /\ events = <<>>
        /\ delegations = EmptyStore
        /\ payments = EmptyStore
        /\ payment_count = 0
        /\ balances = InitialBalances
        /\ InitMoreContracts

NextMonth ==
    \/ Tick(SECONDS_PER_DAY)
    \/ \E amount \in MonthSpends : enforce_spending_limit("u1", amount)

SpecMonth == InitMonth /\ [][NextMonth]_vars

\* The batch processor and the administration: every batch and every caller.
NextBatch ==
    \/ Tick(SECONDS_PER_DAY)
    \/ \E a \in Admins : initialize(a)
    \/ \E caller \in Callers, requests \in Batches :
          /\ (admin = <<caller>> \/ requests \in ProbeBatches)
          /\ batch_update_spending_limits(caller, requests)
    \/ \E current_admin \in Callers, new_admin \in Admins : set_admin(current_admin, new_admin)

SpecBatch == Init /\ [][NextBatch]_vars

\* daily_limit_of applied on its own to every monthly limit of a range.
MaxProbeLimit == 65
DailyLimitInputs == (-MaxProbeLimit..MaxProbeLimit) \cup {300, I128_MAX, -I128_MAX - 1}

InitDailyLimit ==
    /\ admin = <<>>
    /\ last_batch_id = 0
    /\ total_limits_updated = 0
    /\ total_batches_processed = 0
    /\ limits = EmptyStore
    /\ daily = EmptyStore
    /\ monthly = EmptyStore
    /\ now = 0
    /\ sequence = 0
    /\ call \in {[NoCall EXCEPT !.op = "daily_limit_of", !.amount = m] : m \in DailyLimitInputs}
    /\ result = <<>>
    /\ events = <<>>
    /\ delegations = EmptyStore
    /\ payments = EmptyStore
    /\ payment_count = 0
    /\ balances = InitialBalances
    /\ InitMoreContracts

apply_daily_limit_of ==
    /\ call.op = "daily_limit_of"
    /\ result = <<>>
    /\ result' = <<daily_limit_of(call.amount)>>
    /\ UNCHANGED <<storage, now, sequence, call, events, other_contracts>>

SpecDailyLimit == InitDailyLimit /\ [][apply_daily_limit_of]_vars

----------------------------------------------------------------------------
(* Delegation contract (contracts/delegation.rs).                          *)

\* DelegationError (repr u32).
DelegationError_InvalidAddress == 1
DelegationError_InvalidAmount == 2
DelegationError_Unauthorized == 3
DelegationError_AmountTooLarge == 4

\* consume_allowance is explored while the spent amount is at most this.
MaxSpent == 12

\* The storage of the spending-limits and recurring-payment contracts, the
\* ledger clock: untouched by the delegation contract.
outside_delegation == <<storage, recurring_storage, more_contracts, now, sequence>>

delegate_set(owner, delegate, limit) ==
    [event |-> "delegate_set", owner |-> owner, delegate |-> delegate, limit |-> limit]

delegate_revoked(owner, delegate) ==
    [event |-> "delegate_revoked", owner |-> owner, delegate |-> delegate]

delegate_consumed(owner, delegate, amount) ==
    [event |-> "delegate_consumed", owner |-> owner, delegate |-> delegate,
     amount |-> amount]

\* get(&key).unwrap_or(Delegation { limit: 0, spent: 0 })
delegation_or_default(key) ==
    IF key \in DOMAIN delegations THEN delegations[key] ELSE [limit |-> 0, spent |-> 0]

set_delegation(owner, delegate, limit) ==
    LET c == [NoCall EXCEPT !.op = "set_delegation", !.caller = owner,
                            !.user = delegate, !.amount = limit]
        key == <<owner, delegate>>
    IN
    /\ result' = <<>>
    /\ UNCHANGED outside_delegation
    /\ IF owner = delegate
       THEN /\ call' = Error(c, DelegationError_InvalidAddress)
            /\ events' = <<>>
            /\ UNCHANGED delegations
       ELSE IF limit <= 0
       THEN /\ call' = Error(c, DelegationError_InvalidAmount)
            /\ events' = <<>>
            /\ UNCHANGED delegations
       ELSE /\ call' = Ok(c)
            /\ delegations' = Put(delegations, key,
                                  [delegation_or_default(key) EXCEPT !.limit = limit])
            /\ events' = <<delegate_set(owner, delegate, limit)>>

\* Mutant of removed: the delegation is kept with a limit of 0 instead of
\* being removed.
removed_zeroed(store, key) ==
    IF key \in DOMAIN store THEN Put(store, key, [store[key] EXCEPT !.limit = 0]) ELSE store

\* storage().persistent().remove(&key)
removed(store, key) == [k \in DOMAIN store \ {key} |-> store[k]]

revoke_delegation(owner, delegate) ==
    LET c == [NoCall EXCEPT !.op = "revoke_delegation", !.caller = owner,
                            !.user = delegate]
        key == <<owner, delegate>>
    IN
    /\ call' = Ok(c)
    /\ result' = <<>>
    /\ UNCHANGED outside_delegation
    /\ IF key \in DOMAIN delegations
       THEN /\ delegations' = removed(delegations, key)
            /\ events' = <<delegate_revoked(owner, delegate)>>
       ELSE /\ UNCHANGED delegations
            /\ events' = <<>>

\* delegation.spent.checked_add(amount).unwrap_or(i128::MAX)
consume_new_spent(spent, amount) ==
    LET sum == checked_add(spent, amount) IN
    IF sum = <<>> THEN I128_MAX ELSE sum[1]

consume_allowance(owner, delegate, amount) ==
    LET c == [NoCall EXCEPT !.op = "consume_allowance", !.caller = owner,
                            !.user = delegate, !.amount = amount]
        key == <<owner, delegate>>
    IN
    /\ key \in DOMAIN delegations => delegations[key].spent <= MaxSpent
    /\ result' = <<>>
    /\ UNCHANGED outside_delegation
    /\ IF amount <= 0
       THEN /\ call' = Error(c, DelegationError_InvalidAmount)
            /\ events' = <<>>
            /\ UNCHANGED delegations
       ELSE IF key \notin DOMAIN delegations
       THEN /\ call' = Error(c, DelegationError_Unauthorized)
            /\ events' = <<>>
            /\ UNCHANGED delegations
       ELSE LET delegation == delegations[key]
                new_spent == consume_new_spent(delegation.spent, amount)
            IN  IF new_spent > delegation.limit
                THEN /\ call' = Error(c, DelegationError_AmountTooLarge)
                     /\ events' = <<>>
                     /\ UNCHANGED delegations
                ELSE /\ call' = Ok(c)
                     /\ delegations' = Put(delegations, key,
                                           [delegation EXCEPT !.spent = new_spent])
                     /\ events' = <<delegate_consumed(owner, delegate, amount)>>

\* get_delegation: <<>> (None) or <<delegation>> (Some).
get_delegation(owner, delegate) ==
    /\ call' = [NoCall EXCEPT !.op = "get_delegation", !.caller = owner,
                              !.user = delegate]
    /\ result' = <<StoredAt(delegations, <<owner, delegate>>)>>
    /\ events' = <<>>
    /\ UNCHANGED <<delegations, outside_delegation>>

\* Inputs of the delegation contract: one owner, two delegates.
Delegates == {"d1", "d2"}
DelegationLimits == {0, 10, I128_MAX}
ConsumeAmounts == {0, 5, 6, I128_MAX}

NextDelegation ==
    \/ \E delegate \in Delegates \cup {"o1"}, limit \in DelegationLimits :
          set_delegation("o1", delegate, limit)
    \/ \E delegate \in Delegates : revoke_delegation("o1", delegate)
    \/ \E delegate \in Delegates, amount \in ConsumeAmounts :
          consume_allowance("o1", delegate, amount)
    \/ \E delegate \in Delegates : get_delegation("o1", delegate)

SpecDelegation == Init /\ [][NextDelegation]_vars

----------------------------------------------------------------------------
(* Recurring-payment contract (contracts/recurring-payment/src/lib.rs).    *)

\* The largest u64 value, scaled down like I128_MAX.
U64_MAX == 1000

\* The ledger timestamp is set up to this value.
MaxTime == 7

\* At most this many payment schedules are created.
MaxPayments == 2

\* The storage of the other two contracts and the ledger sequence number:
\* untouched by the recurring-payment contract.
outside_recurring == <<storage, delegation_storage, more_contracts, sequence>>

\* env.ledger().set_timestamp(t): the ledger clock moves forward.
set_timestamp(t) ==
    /\ t > now
    /\ now' = t
    /\ call' = [NoCall EXCEPT !.op = "set_timestamp"]
    /\ result' = <<>>
    /\ events' = <<>>
    /\ UNCHANGED <<recurring_storage, outside_recurring>>

recur_created(payment_id, sender) ==
    [event |-> "recur_created", payment_id |-> payment_id, sender |-> sender]

recur_executed(payment_id, amount, next_execution) ==
    [event |-> "recur_executed", payment_id |-> payment_id, amount |-> amount,
     next_execution |-> next_execution]

recur_canceled(payment_id, sender) ==
    [event |-> "recur_canceled", payment_id |-> payment_id, sender |-> sender]

token_transfer(from, to, amount) ==
    [event |-> "transfer", from |-> from, to |-> to, amount |-> amount]

\* Mutant of next_payment_id: the id of the latest payment is handed out
\* again.
next_payment_id_reused(count) == IF count = 0 THEN 1 ELSE count

\* count = PaymentCount.unwrap_or(0); count += 1
next_payment_id(count) == count + 1

create_payment(sender, recipient, token, amount, interval, start_time) ==
    LET c == [NoCall EXCEPT !.op = "create_payment", !.caller = sender,
                            !.user = recipient, !.amount = amount,
                            !.interval = interval, !.start_time = start_time]
        count == next_payment_id(payment_count)
        payment == [sender |-> sender, recipient |-> recipient, token |-> token,
                    amount |-> amount, interval |-> interval,
                    next_execution |-> start_time, active |-> TRUE]
    IN
    /\ payment_count < MaxPayments
    /\ UNCHANGED <<balances, now, outside_recurring>>
    /\ IF amount <= 0
       THEN /\ call' = Panic(c, "Amount must be positive")
            /\ result' = <<>>
            /\ events' = <<>>
            /\ UNCHANGED <<payments, payment_count>>
       ELSE IF interval = 0
       THEN /\ call' = Panic(c, "Interval must be positive")
            /\ result' = <<>>
            /\ events' = <<>>
            /\ UNCHANGED <<payments, payment_count>>
       ELSE /\ call' = Ok([c EXCEPT !.payment_id = count])
            /\ payments' = Put(payments, count, payment)
            /\ payment_count' = count
            /\ result' = <<count>>
            /\ events' = <<recur_created(count, sender)>>

\* Mutant of too_early: an execution exactly at next_execution is refused.
too_early_inclusive(current_time, next_execution) == current_time <= next_execution

\* current_time < payment.next_execution
too_early(current_time, next_execution) == current_time < next_execution

\* Mutant of next_execution_after: one interval is added, however late the
\* execution is.
next_execution_after_no_catch_up(next_execution, interval, current_time) ==
    IF next_execution + interval > U64_MAX THEN <<>> ELSE <<next_execution + interval>>

\* payment.next_execution += interval, then the catch-up of a late
\* execution; <<>> when a u64 addition or multiplication overflows (the
\* call panics with arithmetic overflow checks on).
next_execution_after(next_execution, interval, current_time) ==
    LET scheduled == next_execution + interval IN
    IF scheduled > U64_MAX THEN <<>>
    ELSE IF scheduled <= current_time
    THEN LET intervals_passed == (current_time - scheduled) \div interval
             skipped == (intervals_passed + 1) * interval
         IN  IF skipped > U64_MAX \/ scheduled + skipped > U64_MAX
             THEN <<>>
             ELSE <<scheduled + skipped>>
    ELSE <<scheduled>>

\* token_client.transfer(from, to, amount): <<>> when the balance of from is
\* too small (the token contract fails the call), else the new balances.
transferred(from, to, amount) ==
    IF balances[from] < amount THEN <<>>
    ELSE <<[balances EXCEPT ![from] = @ - amount, ![to] = @ + amount]>>

\* Mutant of is_active: a canceled payment still counts as active.
is_active_always(payment) == TRUE

\* payment.active, as execute_payment tests it
is_active(payment) == payment.active

execute_payment(payment_id) ==
    LET c == [NoCall EXCEPT !.op = "execute_payment", !.payment_id = payment_id]
        unchanged == /\ result' = <<>>
                     /\ events' = <<>>
                     /\ UNCHANGED recurring_storage
    IN
    /\ UNCHANGED <<now, outside_recurring>>
    /\ IF payment_id \notin DOMAIN payments
       THEN call' = Panic(c, "Payment not found") /\ unchanged
       ELSE LET payment == payments[payment_id]
                current_time == now
                paid == transferred(payment.sender, payment.recipient, payment.amount)
                next == next_execution_after(payment.next_execution, payment.interval,
                                             current_time)
            IN  IF ~is_active(payment)
                THEN call' = Panic(c, "Payment is not active") /\ unchanged
                ELSE IF too_early(current_time, payment.next_execution)
                THEN call' = Panic(c, "Too early for next execution") /\ unchanged
                ELSE IF paid = <<>>
                THEN call' = Panic(c, "balance is not sufficient to spend") /\ unchanged
                ELSE IF next = <<>>
                THEN call' = Panic(c, "attempt to add with overflow") /\ unchanged
                ELSE /\ call' = Ok(c)
                     /\ result' = <<>>
                     /\ balances' = paid[1]
                     /\ payments' = Put(payments, payment_id,
                                        [payment EXCEPT !.next_execution = next[1]])
                     /\ UNCHANGED payment_count
                     /\ events' = <<token_transfer(payment.sender, payment.recipient,
                                                   payment.amount),
                                    recur_executed(payment_id, payment.amount, next[1])>>

cancel_payment(payment_id) ==
    LET c == [NoCall EXCEPT !.op = "cancel_payment", !.payment_id = payment_id] IN
    /\ result' = <<>>
    /\ UNCHANGED <<balances, payment_count, now, outside_recurring>>
    /\ IF payment_id \notin DOMAIN payments
       THEN /\ call' = Panic(c, "Payment not found")
            /\ events' = <<>>
            /\ UNCHANGED payments
       ELSE IF ~payments[payment_id].active
       THEN /\ call' = Panic(c, "Payment is already canceled")
            /\ events' = <<>>
            /\ UNCHANGED payments
       ELSE /\ call' = Ok([c EXCEPT !.caller = payments[payment_id].sender])
            /\ payments' = Put(payments, payment_id,
                               [payments[payment_id] EXCEPT !.active = FALSE])
            /\ events' = <<recur_canceled(payment_id, payments[payment_id].sender)>>

get_payment(payment_id) ==
    LET c == [NoCall EXCEPT !.op = "get_payment", !.payment_id = payment_id] IN
    /\ events' = <<>>
    /\ UNCHANGED <<recurring_storage, now, outside_recurring>>
    /\ IF payment_id \notin DOMAIN payments
       THEN /\ call' = Panic(c, "Payment not found")
            /\ result' = <<>>
       ELSE /\ call' = Ok(c)
            /\ result' = <<payments[payment_id]>>

\* Inputs of the recurring-payment contract.
PaymentAmounts == {0, 3}
PaymentIntervals == {0, 2, U64_MAX}
PaymentStarts == {2}
PaymentIds == 1 .. MaxPayments

NextRecurring ==
    \/ \E t \in 1 .. MaxTime : set_timestamp(t)
    \/ \E amount \in PaymentAmounts, interval \in PaymentIntervals,
          start_time \in PaymentStarts :
          create_payment("alice", "bob", "token", amount, interval, start_time)
    \/ \E payment_id \in PaymentIds : execute_payment(payment_id)
    \/ \E payment_id \in PaymentIds : cancel_payment(payment_id)
    \/ \E payment_id \in PaymentIds : get_payment(payment_id)

SpecRecurring == Init /\ [][NextRecurring]_vars

----------------------------------------------------------------------------
(* Claims.                                                                 *)

\* The daily cap as the specification states it.
StatedDailyCap(m) ==
    IF m <= 0 THEN 0 ELSE IF m \div 30 >= 1 THEN m \div 30 ELSE 1

\* This step is a call of enforce_spending_limit that was rejected by a cap.
SpendRejected ==
    /\ call'.op = "enforce_spending_limit"
    /\ call'.status = "error"
    /\ call'.code \in {DailyLimitExceeded, MonthlyLimitExceeded}

\* This step is a call of enforce_spending_limit with amount > 0 for a user
\* whose stored limit is active.
SpendEnforced ==
    /\ call'.op = "enforce_spending_limit"
    /\ call'.amount > 0
    /\ call'.user \in DOMAIN limits
    /\ limits[call'.user].is_active

\* C1: a spend rejected by the daily or the monthly cap leaves the user's
\* daily counter, monthly counter and SpendingLimit record (and every other
\* stored value) exactly as they were before the call.
C1_RejectedSpendChangesNothing ==
    [][SpendRejected =>
         LET u == call'.user IN
         /\ StoredAt(daily', <<u, DayId(now)>>) = StoredAt(daily, <<u, DayId(now)>>)
         /\ StoredAt(monthly', <<u, MonthId(now)>>) = StoredAt(monthly, <<u, MonthId(now)>>)
         /\ StoredAt(limits', u) = StoredAt(limits, u)
         /\ storage' = storage]_vars

\* A spend rejected by the monthly cap alone, the month's counter kept.
C1_Witness ==
    /\ call.op = "enforce_spending_limit"
    /\ call.status = "error"
    /\ call.code = MonthlyLimitExceeded
    /\ StoredAt(monthly, <<call.user, MonthId(now)>>) = <<1>>
    /\ StoredAt(daily, <<call.user, DayId(now)>>) = <<>>

\* C2: for a user with an active limit and amount > 0 the spend is accepted
\* if and only if current_daily + amount <= daily cap and
\* current_monthly + amount <= monthly_limit; with monthly_limit 300 and 5
\* already spent today, a spend of 6 is refused with DailyLimitExceeded and
\* the day's counter stays 5.
C2_AcceptedIffWithinBothCaps ==
    [][SpendEnforced =>
         LET u == call'.user
             amount == call'.amount
             current_daily == GetOr0(daily, <<u, DayId(now)>>)
             current_monthly == GetOr0(monthly, <<u, MonthId(now)>>)
             monthly_limit == limits[u].monthly_limit
         IN  /\ (call'.status = "ok") <=>
                   (/\ current_daily + amount <= StatedDailyCap(monthly_limit)
                    /\ current_monthly + amount <= monthly_limit)
             /\ (monthly_limit = 300 /\ current_daily = 5 /\ amount = 6) =>
                   (/\ call'.status = "error"
                    /\ call'.code = DailyLimitExceeded
                    /\ StoredAt(daily', <<u, DayId(now)>>) = <<5>>)]_vars

\* Scenario B: 5 then 6 on one day under a monthly limit of 300.
C2_Witness ==
    /\ call.op = "enforce_spending_limit"
    /\ call.amount = 6
    /\ call.code = DailyLimitExceeded
    /\ call.user \in DOMAIN limits
    /\ limits[call.user].monthly_limit = 300
    /\ StoredAt(daily, <<call.user, DayId(now)>>) = <<5>>

\* C3: an accepted spend adds exactly amount to the day's and the month's
\* counter, sets current_spending to the new monthly counter and updated_at
\* to month_id, and leaves monthly_limit, category and is_active unchanged.
C3_AcceptedSpendUpdates ==
    [][(SpendEnforced /\ call'.status = "ok") =>
         LET u == call'.user
             amount == call'.amount
             day_key == <<u, DayId(now)>>
             month_key == <<u, MonthId(now)>>
         IN  /\ StoredAt(daily', day_key) = <<GetOr0(daily, day_key) + amount>>
             /\ StoredAt(monthly', month_key) = <<GetOr0(monthly, month_key) + amount>>
             /\ u \in DOMAIN limits'
             /\ limits'[u].current_spending = monthly'[month_key]
             /\ limits'[u].updated_at = MonthId(now)
             /\ limits'[u].monthly_limit = limits[u].monthly_limit
             /\ limits'[u].category = limits[u].category
             /\ limits'[u].is_active = limits[u].is_active
             /\ limits'[u].user = limits[u].user]_vars

\* A second accepted spend of the day: 5 + 5.
C3_Witness ==
    /\ call.op = "enforce_spending_limit"
    /\ call.status = "ok"
    /\ call.amount = 5
    /\ call.user \in DOMAIN limits
    /\ limits[call.user].current_spending = 10
    /\ StoredAt(daily, <<call.user, DayId(now)>>) = <<10>>
    /\ StoredAt(monthly, <<call.user, MonthId(now)>>) = <<10>>

\* C4: the daily cap is max(1, monthly_limit / 30) (integer division) for
\* every monthly_limit > 0, so 1 for 1..29, and 0 for every monthly_limit <= 0.
C4_DailyCapDerivation ==
    (call.op = "daily_limit_of" /\ result # <<>>) =>
        LET m == call.amount
            cap == result[1]
        IN  /\ m <= 0 => cap = 0
            /\ (m >= 1 /\ m <= 29) => cap = 1
            /\ m >= 30 => (cap * 30 <= m /\ m < (cap + 1) * 30)

\* The cap of a monthly limit below 30.
C4_Witness ==
    /\ call.op = "daily_limit_of"
    /\ call.amount = 29
    /\ result = <<1>>

\* The last call was a batch that passed its preconditions and returned.
BatchReturned ==
    call.op = "batch_update_spending_limits" /\ call.status = "ok"

\* This step is a batch that passed its preconditions and returned.
BatchAccepted ==
    call'.op = "batch_update_spending_limits" /\ call'.status = "ok"

\* Validation as the specification states it.
StatedValid(request) ==
    request.monthly_limit > 0 /\ request.category \in WellFormedCategories

\* The user a result entry refers to.
ResultUser(entry) == IF entry.tag = "Success" THEN entry.limit.user ELSE entry.user

\* The indices of the valid requests of a user, and the last of them.
ValidIdx(requests, u) ==
    {i \in 1..Len(requests) : requests[i].user = u /\ StatedValid(requests[i])}
LastValidIdx(requests, u) ==
    CHOOSE i \in ValidIdx(requests, u) : \A j \in ValidIdx(requests, u) : j <= i
RequestUsers(requests) == {requests[i].user : i \in 1..Len(requests)}

\* C5: for every accepted batch, successful + failed = total_requests =
\* len(requests), results has one entry per request, and results[i] refers to
\* the user of requests[i].
C5_CountsAndOrder ==
    BatchReturned =>
        LET r == result[1]
            requests == call.requests
        IN  /\ Len(requests) >= 1 /\ Len(requests) <= MAX_BATCH_SIZE
            /\ r.successful + r.failed = r.total_requests
            /\ r.total_requests = Len(requests)
            /\ Len(r.results) = Len(requests)
            /\ \A i \in 1..Len(requests) : ResultUser(r.results[i]) = requests[i].user

\* A batch of three requests, one of which failed.
C5_Witness ==
    /\ BatchReturned
    /\ Len(call.requests) = 3
    /\ result[1].successful = 2
    /\ result[1].failed = 1

\* C6: the batch ids returned by the successful calls are 1, 2, 3, ...: the
\* stored id starts at 0, every accepted batch returns and stores the stored
\* id plus one, and no other step (an aborted call, a batch whose requests
\* fail) changes the stored id.
C6_BatchIdsCount ==
    /\ last_batch_id = 0
    /\ [][IF BatchAccepted
          THEN /\ result'[1].batch_id = last_batch_id + 1
               /\ last_batch_id' = last_batch_id + 1
          ELSE last_batch_id' = last_batch_id]_vars

\* The second batch, after a first batch in which a request failed.
C6_Witness ==
    /\ BatchReturned
    /\ result[1].batch_id = 2
    /\ last_batch_id = 2
    /\ total_limits_updated = 0

\* C7: with an admin stored, a batch call by another caller aborts with
\* Unauthorized, an empty batch of the admin with EmptyBatch, a batch of the
\* admin longer than MAX_BATCH_SIZE with BatchTooLarge, and none of them
\* changes a stored value.
C7_PreconditionAbort ==
    [][(call'.op = "batch_update_spending_limits" /\ admin # <<>>) =>
         LET n == Len(call'.requests) IN
         /\ (call'.caller # admin[1]) =>
               (call'.status = "error" /\ call'.code = Unauthorized)
         /\ (call'.caller = admin[1] /\ n = 0) =>
               (call'.status = "error" /\ call'.code = EmptyBatch)
         /\ (call'.caller = admin[1] /\ n > MAX_BATCH_SIZE) =>
               (call'.status = "error" /\ call'.code = BatchTooLarge)
         /\ (call'.caller # admin[1] \/ n = 0 \/ n > MAX_BATCH_SIZE) =>
               (storage' = storage /\ result' = <<>>)]_vars

\* An oversized batch refused after an earlier batch had stored limits.
C7_Witness ==
    /\ call.op = "batch_update_spending_limits"
    /\ call.code = BatchTooLarge
    /\ Len(call.requests) = MAX_BATCH_SIZE + 1
    /\ last_batch_id = 1
    /\ DOMAIN limits # {}

\* C8: a request that fails validation yields a Failure entry for its user
\* at its own index (with the invalid-amount code when monthly_limit <= 0),
\* counts in failed, and does not touch the stored limit of its user: the
\* limit stored after the batch is the one of the user's last valid request,
\* and the one from before the batch when the user has no valid request.
C8_FailedRequestTouchesNothing ==
    [][BatchAccepted =>
         LET r == result'[1]
             requests == call'.requests
             failing == {i \in 1..Len(requests) : ~StatedValid(requests[i])}
         IN  /\ \A i \in failing :
                   /\ r.results[i].tag = "Failure"
                   /\ r.results[i].user = requests[i].user
                   /\ requests[i].monthly_limit <= 0 =>
                         r.results[i].error_code = ErrorCode_INVALID_AMOUNT
             /\ r.failed = Cardinality(failing)
             /\ \A i \in failing :
                   LET u == requests[i].user IN
                   IF ValidIdx(requests, u) = {}
                   THEN StoredAt(limits', u) = StoredAt(limits, u)
                   ELSE StoredAt(limits', u) =
                            <<r.results[LastValidIdx(requests, u)].limit>>]_vars

\* Scenario A: three requests, the second with monthly_limit 0.
C8_Witness ==
    /\ BatchReturned
    /\ Len(call.requests) = 3
    /\ call.requests[2].monthly_limit = 0
    /\ result[1].successful = 2
    /\ result[1].failed = 1
    /\ result[1].results[2] = [tag |-> "Failure", user |-> call.requests[2].user,
                                error_code |-> ErrorCode_INVALID_AMOUNT]

\* C9: the outcome of a request depends on that request alone: it is a
\* Success exactly when it passes validation, whatever the other requests of
\* the batch, the Success carries the requested limit, and the limit of the
\* user's last valid request is the one stored.
C9_RequestsIndependent ==
    BatchReturned =>
        LET r == result[1]
            requests == call.requests
        IN  /\ \A i \in 1..Len(requests) :
                  /\ (r.results[i].tag = "Success") <=> StatedValid(requests[i])
                  /\ StatedValid(requests[i]) =>
                        /\ r.results[i].limit.user = requests[i].user
                        /\ r.results[i].limit.monthly_limit = requests[i].monthly_limit
                        /\ r.results[i].limit.category = requests[i].category
            /\ \A u \in RequestUsers(requests) :
                  ValidIdx(requests, u) # {} =>
                      StoredAt(limits, u) = <<r.results[LastValidIdx(requests, u)].limit>>
            /\ r.successful =
                  Cardinality({i \in 1..Len(requests) : StatedValid(requests[i])})

\* A valid request that follows a failing one.
C9_Witness ==
    /\ BatchReturned
    /\ Len(call.requests) = 2
    /\ result[1].results[1].tag = "Failure"
    /\ result[1].results[2].tag = "Success"
    /\ StoredAt(limits, call.requests[2].user) = <<result[1].results[2].limit>>

\* C10: every successful update stores a limit with current_spending = 0,
\* is_active = true and the requested monthly_limit and category, whatever
\* the spending recorded in the limit it replaces.
C10_UpdateResetsSpending ==
    BatchReturned =>
        LET r == result[1]
            requests == call.requests
        IN  /\ \A i \in 1..Len(requests) :
                  r.results[i].tag = "Success" =>
                      /\ r.results[i].limit.current_spending = 0
                      /\ r.results[i].limit.is_active
            /\ \A u \in RequestUsers(requests) :
                  ValidIdx(requests, u) # {} =>
                      LET last == requests[LastValidIdx(requests, u)] IN
                      /\ u \in DOMAIN limits
                      /\ limits[u].current_spending = 0
                      /\ limits[u].is_active
                      /\ limits[u].monthly_limit = last.monthly_limit
                      /\ limits[u].category = last.category

\* A limit replaced after its user had spent 5 in the current month.
C10_Witness ==
    /\ BatchReturned
    /\ ValidIdx(call.requests, "u1") # {}
    /\ StoredAt(monthly, <<"u1", MonthId(now)>>) = <<5>>
    /\ limits["u1"].current_spending = 0

\* This step is a call of enforce_spending_limit with amount > 0 for a user
\* who has no stored limit or whose stored limit is inactive.
SpendUnrestricted ==
    /\ call'.op = "enforce_spending_limit"
    /\ call'.amount > 0
    /\ (call'.user \notin DOMAIN limits \/ ~limits[call'.user].is_active)

\* C11: when no SpendingLimit is stored for the user, or the stored one is
\* inactive, enforce_spending_limit with amount > 0 succeeds and writes
\* nothing: no period counter is created and no stored value changes.
C11_NoLimitNoWrite ==
    [][SpendUnrestricted =>
         /\ call'.status = "ok"
         /\ DOMAIN daily' = DOMAIN daily
         /\ DOMAIN monthly' = DOMAIN monthly
         /\ DOMAIN limits' = DOMAIN limits
         /\ storage' = storage]_vars

\* The largest amount accepted for a user without a limit, while another
\* user has one; no counter exists for the spender.
C11_Witness ==
    /\ call.op = "enforce_spending_limit"
    /\ call.status = "ok"
    /\ call.amount = I128_MAX
    /\ call.user \notin DOMAIN limits
    /\ DOMAIN limits # {}
    /\ <<call.user, DayId(now)>> \notin DOMAIN daily
    /\ <<call.user, MonthId(now)>> \notin DOMAIN monthly

\* C12: enforce_spending_limit with amount <= 0 aborts with InvalidAmount
\* and changes no stored value, for every user, with or without a limit.
C12_NonPositiveAmountAborts ==
    [][(call'.op = "enforce_spending_limit" /\ call'.amount <= 0) =>
         /\ call'.status = "error"
         /\ call'.code = InvalidAmount
         /\ events' = <<>>
         /\ storage' = storage]_vars

\* A negative amount refused for a user without a limit, while another user
\* has one.
C12_Witness ==
    /\ call.op = "enforce_spending_limit"
    /\ call.amount < 0
    /\ call.status = "error"
    /\ call.code = InvalidAmount
    /\ call.user \notin DOMAIN limits
    /\ DOMAIN limits # {}

\* C13: a spend that violates both the daily and the monthly cap aborts with
\* DailyLimitExceeded; MonthlyLimitExceeded is the code only when the monthly
\* cap is violated and the daily cap is not.
C13_DailyTakesPrecedence ==
    [][SpendEnforced =>
         LET u == call'.user
             amount == call'.amount
             new_daily == GetOr0(daily, <<u, DayId(now)>>) + amount
             new_monthly == GetOr0(monthly, <<u, MonthId(now)>>) + amount
             daily_violated == new_daily > StatedDailyCap(limits[u].monthly_limit)
             monthly_violated == new_monthly > limits[u].monthly_limit
             in_range == new_daily <= I128_MAX /\ new_monthly <= I128_MAX
         IN  /\ (in_range /\ daily_violated /\ monthly_violated) =>
                   (call'.status = "error" /\ call'.code = DailyLimitExceeded)
             /\ (call'.status = "error" /\ call'.code = MonthlyLimitExceeded) =>
                   (monthly_violated /\ ~daily_violated)]_vars

\* A spend above the monthly limit (and so above the daily cap) refused with
\* the daily code.
C13_Witness ==
    /\ call.op = "enforce_spending_limit"
    /\ call.status = "error"
    /\ call.code = DailyLimitExceeded
    /\ call.user \in DOMAIN limits
    /\ call.amount > limits[call.user].monthly_limit
    /\ GetOr0(monthly, <<call.user, MonthId(now)>>) + call.amount <= I128_MAX

\* This step is a call of enforce_spending_limit, for a user whose stored
\* limit is active, in which current_daily + amount or current_monthly +
\* amount is above the largest representable amount.
SpendOverflows ==
    /\ SpendEnforced
    /\ \/ GetOr0(daily, <<call'.user, DayId(now)>>) + call'.amount > I128_MAX
       \/ GetOr0(monthly, <<call'.user, MonthId(now)>>) + call'.amount > I128_MAX

\* The sum capped at the largest representable amount.
saturating_add(a, b) == IF a + b > I128_MAX THEN I128_MAX ELSE a + b

\* C14 as stated: when a sum overflows it is capped at the largest
\* representable amount and the call goes on to the cap checks (so it ends
\* with a cap violation, or is accepted with the capped sums stored), rather
\* than aborting on the overflow.
C14_SaturatingAddition ==
    [][SpendOverflows =>
         LET u == call'.user
             new_daily == saturating_add(GetOr0(daily, <<u, DayId(now)>>), call'.amount)
             new_monthly == saturating_add(GetOr0(monthly, <<u, MonthId(now)>>),
                                           call'.amount)
         IN  IF new_daily > StatedDailyCap(limits[u].monthly_limit)
             THEN call'.status = "error" /\ call'.code = DailyLimitExceeded
             ELSE IF new_monthly > limits[u].monthly_limit
             THEN call'.status = "error" /\ call'.code = MonthlyLimitExceeded
             ELSE /\ call'.status = "ok"
                  /\ StoredAt(daily', <<u, DayId(now)>>) = <<new_daily>>
                  /\ StoredAt(monthly', <<u, MonthId(now)>>) = <<new_monthly>>]_vars

\* C14, amended: when current_daily + amount or current_monthly + amount is
\* above the largest representable amount the call aborts with InvalidBatch
\* before the cap checks: no limit_exceeded notification is published and no
\* stored value changes; the sum is neither capped nor wrapped.
C14_OverflowAborts ==
    [][SpendOverflows =>
         /\ call'.status = "error"
         /\ call'.code = InvalidBatch
         /\ events' = <<>>
         /\ storage' = storage]_vars

\* The largest amount spent by a user whose counters hold 5.
C14_Witness ==
    /\ call.op = "enforce_spending_limit"
    /\ call.status = "error"
    /\ call.code = InvalidBatch
    /\ call.amount = I128_MAX
    /\ StoredAt(daily, <<call.user, DayId(now)>>) = <<5>>
    /\ StoredAt(monthly, <<call.user, MonthId(now)>>) = <<5>>

\* The sum of monthly_limit over the valid requests among requests[lo..hi].
RECURSIVE SumValidLimits(_, _, _)
SumValidLimits(requests, lo, hi) ==
    IF lo > hi THEN 0
    ELSE IF lo = hi
    THEN (IF StatedValid(requests[lo]) THEN requests[lo].monthly_limit ELSE 0)
    ELSE LET mid == (lo + hi) \div 2 IN
         SumValidLimits(requests, lo, mid) + SumValidLimits(requests, mid + 1, hi)

\* C15: total_limits_value of a batch is the sum of monthly_limit over its
\* successful requests, or the largest representable amount when that sum
\* is above it; a batch of the admin of an accepted size returns, overflow or
\* not, and every valid request of it is a Success.
C15_TotalValueClamped ==
    (/\ call.op = "batch_update_spending_limits"
     /\ admin = <<call.caller>>
     /\ Len(call.requests) >= 1
     /\ Len(call.requests) <= MAX_BATCH_SIZE) =>
        /\ call.status = "ok"
        /\ LET r == result[1]
               requests == call.requests
               sum == SumValidLimits(requests, 1, Len(requests))
           IN  /\ r.metrics.total_limits_value = IF sum > I128_MAX THEN I128_MAX ELSE sum
               /\ r.metrics.successful_updates =
                      Cardinality({i \in 1..Len(requests) : StatedValid(requests[i])})
               /\ \A i \in 1..Len(requests) :
                      StatedValid(requests[i]) => r.results[i].tag = "Success"

\* Two valid requests whose limits add up to more than the largest amount.
C15_Witness ==
    /\ BatchReturned
    /\ Len(call.requests) = 2
    /\ call.requests[1].monthly_limit + call.requests[2].monthly_limit > I128_MAX
    /\ result[1].successful = 2
    /\ result[1].metrics.total_limits_value = I128_MAX

\* The codes of SpendingLimitError that the aborts other than the overflow
\* of a period counter are stated to use.
OtherAbortCodes ==
    {NotInitialized, Unauthorized, EmptyBatch, BatchTooLarge, InvalidAmount,
     DailyLimitExceeded, MonthlyLimitExceeded}

\* This step is a call that needs the admin.
AdminCall == call'.op \in {"batch_update_spending_limits", "set_admin"}

\* C16: every fatal abort is a tagged SpendingLimitError code, never a
\* generic failure, and changes no stored value: NotInitialized when no
\* admin is stored, Unauthorized for a caller other than the admin,
\* EmptyBatch and BatchTooLarge for the batch sizes, InvalidAmount for a
\* non-positive spend, a code of its own for the overflow of a period
\* counter, DailyLimitExceeded or MonthlyLimitExceeded for a cap violation.
C16_AbortsAreTagged ==
    [][/\ (AdminCall /\ admin = <<>>) =>
             (call'.status = "error" /\ call'.code = NotInitialized)
       /\ (AdminCall /\ admin # <<>> /\ admin # <<call'.caller>>) =>
             (call'.status = "error" /\ call'.code = Unauthorized)
       /\ (call'.op = "batch_update_spending_limits" /\ admin = <<call'.caller>>
             /\ Len(call'.requests) = 0) =>
             (call'.status = "error" /\ call'.code = EmptyBatch)
       /\ (call'.op = "batch_update_spending_limits" /\ admin = <<call'.caller>>
             /\ Len(call'.requests) > MAX_BATCH_SIZE) =>
             (call'.status = "error" /\ call'.code = BatchTooLarge)
       /\ (call'.op = "enforce_spending_limit" /\ call'.amount <= 0) =>
             (call'.status = "error" /\ call'.code = InvalidAmount)
       /\ SpendOverflows =>
             (call'.status = "error" /\ call'.code \in 1..8 \ OtherAbortCodes)
       /\ (call'.op \in {"batch_update_spending_limits", "set_admin",
                          "enforce_spending_limit"} /\ call'.status # "ok") =>
             (call'.status = "error" /\ call'.code \in 1..8 /\ storage' = storage)]_vars

\* current_spending of the stored limit of u equals the counter of u for the
\* current month (0 when the counter is absent).
Mirrors(u) == limits[u].current_spending = GetOr0(monthly, <<u, MonthId(now)>>)

\* C17 as stated: in every reachable state, for every user with a stored
\* limit, current_spending equals the MonthlySpending counter of the user
\* for the current month_id.
C17_MirrorsCurrentMonth == \A u \in DOMAIN limits : Mirrors(u)

\* This step is an accepted spend of user u.
SpendAcceptedOf(u) ==
    /\ call'.op = "enforce_spending_limit"
    /\ call'.status = "ok"
    /\ call'.user = u

\* This step is a batch that replaces the stored limit of user u.
LimitReplacedOf(u) == BatchAccepted /\ ValidIdx(call'.requests, u) # {}

\* C17, amended: current_spending equals the user's counter for the current
\* month right after every accepted spend of the user, and stays equal to it
\* until a batch replaces the user's limit (current_spending becomes 0, the
\* counter is kept) or the month_id changes (the new month's counter is
\* absent); in every reachable state it is 0 or the user's counter for the
\* month held in updated_at.
C17_MirrorsUntilResetOrRollover ==
    /\ [](\A u \in DOMAIN limits :
             \/ limits[u].current_spending = 0
             \/ StoredAt(monthly, <<u, limits[u].updated_at>>) =
                    <<limits[u].current_spending>>)
    /\ [][\A u \in DOMAIN limits :
             /\ SpendAcceptedOf(u) => Mirrors(u)'
             /\ (Mirrors(u) /\ MonthId(now') = MonthId(now) /\ ~LimitReplacedOf(u)) =>
                   Mirrors(u)']_vars

\* An accepted spend in the second month: the limit shows the second month's
\* total, the first month's counter is kept.
C17_Witness ==
    /\ call.op = "enforce_spending_limit"
    /\ call.status = "ok"
    /\ MonthId(now) = 1
    /\ StoredAt(monthly, <<call.user, 0>>) = <<5>>
    /\ StoredAt(monthly, <<call.user, 1>>) = <<6>>
    /\ limits[call.user].current_spending = 6
    /\ limits[call.user].updated_at = 1

\* C18: in every reachable state every stored SpendingLimit with
\* is_active = true has monthly_limit > 0.
C18_ActiveLimitPositive ==
    \A u \in DOMAIN limits : limits[u].is_active => limits[u].monthly_limit > 0

\* A batch whose requests all failed, processed after the limit of a user had
\* been stored and spent against in an earlier month.
C18_Witness ==
    /\ BatchReturned
    /\ result[1].failed = 2
    /\ result[1].successful = 0
    /\ "u1" \in DOMAIN limits
    /\ limits["u1"].is_active
    /\ limits["u1"].current_spending = 5
    /\ call.requests[1].user = "u1"
    /\ call.requests[1].monthly_limit = 0

\* C19: every batch that passes its preconditions stores the returned
\* batch_id as last_batch_id, adds 1 to total_batches_processed and adds its
\* successful count (0 included) to total_limits_updated; no other step
\* changes the three totals, which start at 0, so get_last_batch_id always
\* equals get_total_batches_processed and get_total_limits_updated is the
\* sum of the successful counts.
C19_RunningTotals ==
    /\ get_last_batch_id = 0
    /\ get_total_limits_updated = 0
    /\ get_total_batches_processed = 0
    /\ [](get_last_batch_id = get_total_batches_processed)
    /\ [][IF BatchAccepted
          THEN /\ get_last_batch_id' = result'[1].batch_id
               /\ get_total_batches_processed' = get_total_batches_processed + 1
               /\ get_total_limits_updated' =
                      get_total_limits_updated + result'[1].successful
          ELSE /\ get_last_batch_id' = get_last_batch_id
               /\ get_total_batches_processed' = get_total_batches_processed
               /\ get_total_limits_updated' = get_total_limits_updated]_vars

\* A second batch, without a successful request, after a batch that stored
\* two limits.
C19_Witness ==
    /\ BatchReturned
    /\ result[1].successful = 0
    /\ result[1].batch_id = 2
    /\ get_last_batch_id = 2
    /\ get_total_batches_processed = 2
    /\ get_total_limits_updated = 2

\* C20: the admin is stored by the first initialize only: a later initialize
\* fails and changes neither the admin nor the totals.  Afterwards the stored
\* admin changes only by set_admin called by the stored admin, which stores
\* the new admin; a batch update or set_admin by anyone else, the former
\* admin included, is rejected as Unauthorized, and the stored admin is not.
C20_AdminHandover ==
    [][/\ (call'.op = "initialize" /\ admin # <<>>) =>
             (call'.status # "ok" /\ storage' = storage)
       /\ (call'.op = "initialize" /\ admin = <<>>) =>
             (call'.status = "ok" /\ admin' = <<call'.caller>>)
       /\ admin' # admin =>
             \/ call'.op = "initialize" /\ admin = <<>>
             \/ /\ call'.op = "set_admin"
                /\ admin = <<call'.caller>>
                /\ call'.status = "ok"
                /\ admin' = <<call'.user>>
       /\ (call'.op = "set_admin" /\ admin = <<call'.caller>>) =>
             (call'.status = "ok" /\ admin' = <<call'.user>>)
       /\ (AdminCall /\ admin # <<>> /\ admin # <<call'.caller>>) =>
             /\ call'.status = "error"
             /\ call'.code = Unauthorized
             /\ storage' = storage
       /\ (AdminCall /\ admin = <<call'.caller>>) =>
             ~(call'.status = "error" /\ call'.code = Unauthorized)]_vars

\* After the handover from a1 to a2 and a batch of a2, set_admin by the
\* former admin a1 is rejected.
C20_Witness ==
    /\ call.op = "set_admin"
    /\ call.caller = "a1"
    /\ call.status = "error"
    /\ call.code = Unauthorized
    /\ admin = <<"a2">>
    /\ last_batch_id = 1

\* The period ids as the specification states them.
StatedDayId(t) == t \div 86400
StatedMonthId(t) == t \div (86400 * 30)

\* C21: a spend in a day (month) whose counter does not exist yet is judged
\* and recorded from a total of 0, whatever the counters of earlier periods
\* hold; a counter, once stored, is never removed and changes only while its
\* period is the current one; in a new day of the same month the monthly
\* total goes on from the month's counter.
C21_PeriodRollover ==
    [][/\ \A k \in DOMAIN daily :
             /\ k \in DOMAIN daily'
             /\ k[2] # StatedDayId(now') => daily'[k] = daily[k]
       /\ \A k \in DOMAIN monthly :
             /\ k \in DOMAIN monthly'
             /\ k[2] # StatedMonthId(now') => monthly'[k] = monthly[k]
       /\ SpendEnforced =>
             LET u == call'.user
                 amount == call'.amount
                 day_key == <<u, StatedDayId(now)>>
                 month_key == <<u, StatedMonthId(now)>>
                 month_total == IF month_key \in DOMAIN monthly
                                THEN monthly[month_key] ELSE 0
             IN  /\ day_key \notin DOMAIN daily =>
                       /\ (call'.status = "ok") <=>
                              /\ amount <= StatedDailyCap(limits[u].monthly_limit)
                              /\ month_total + amount <= limits[u].monthly_limit
                       /\ call'.status = "ok" =>
                              /\ StoredAt(daily', day_key) = <<amount>>
                              /\ StoredAt(monthly', month_key) = <<month_total + amount>>
                 /\ (month_key \notin DOMAIN monthly /\ call'.status = "ok") =>
                       StoredAt(monthly', month_key) = <<amount>>]_vars

\* The second day of a month: the day's counter starts again, the month's
\* counter goes on, the first day's counter is kept.
C21_Witness ==
    /\ call.op = "enforce_spending_limit"
    /\ call.status = "ok"
    /\ StatedDayId(now) = 1
    /\ StatedMonthId(now) = 0
    /\ StoredAt(daily, <<call.user, 0>>) = <<5>>
    /\ StoredAt(daily, <<call.user, 1>>) = <<6>>
    /\ StoredAt(monthly, <<call.user, 0>>) = <<11>>

\* The per-item notifications among the notifications of a call, in order.
IsItemEvent(e) == e.event \in {"limit_updated", "limit_update_failed"}
ItemEvents == SelectSeq(events, IsItemEvent)

\* C22: an accepted batch publishes first one batch_started, then for each
\* request, in input order, exactly one per-item notification (limit_updated
\* with the stored limit for a success, limit_update_failed with the user and
\* the error code for a failure), and last one batch_completed with the final
\* successful, failed and total_limits_value.
C22_NotificationOrder ==
    BatchReturned =>
        LET r == result[1]
            n == Len(call.requests)
            last == Len(events)
        IN  /\ last >= n + 2
            /\ events[1] = batch_started(r.batch_id, n)
            /\ events[last] = batch_completed(r.batch_id, r.successful, r.failed,
                                              r.metrics.total_limits_value)
            /\ \A j \in 1..last :
                  /\ events[j].event = "batch_started" => j = 1
                  /\ events[j].event = "batch_completed" => j = last
            /\ Len(ItemEvents) = n
            /\ \A i \in 1..n :
                  IF r.results[i].tag = "Success"
                  THEN ItemEvents[i] = limit_updated(r.batch_id, r.results[i].limit)
                  ELSE ItemEvents[i] = limit_update_failed(r.batch_id, r.results[i].user,
                                                          r.results[i].error_code)

\* Scenario A: success, failure, success between the two batch notifications.
C22_Witness ==
    /\ BatchReturned
    /\ Len(call.requests) = 3
    /\ Len(events) = 5
    /\ events[1].event = "batch_started"
    /\ events[2].event = "limit_updated"
    /\ events[3].event = "limit_update_failed"
    /\ events[4].event = "limit_updated"
    /\ events[5].event = "batch_completed"

\* The positions of the high-value notifications of a call.
HighValueIdx == {j \in 1..Len(events) : events[j].event = "high_value_limit"}

\* The requests of a batch that are valid and at or above the threshold.
HighValueRequests(requests) ==
    {i \in 1..Len(requests) :
        StatedValid(requests[i]) /\ requests[i].monthly_limit >= HIGH_VALUE_THRESHOLD}

\* C23: in an accepted batch a high_value_limit notification is published
\* for a request exactly when the request succeeds with monthly_limit at or
\* above the threshold, right after the limit_updated notification of that
\* request and with its user and limit; none is published for a failure.
C23_HighValueNotification ==
    BatchReturned =>
        LET r == result[1] IN
        /\ \A j \in HighValueIdx :
              /\ j > 1
              /\ events[j - 1].event = "limit_updated"
              /\ events[j] = high_value_limit(r.batch_id, events[j - 1].limit.user,
                                              events[j - 1].limit.monthly_limit)
              /\ events[j].monthly_limit >= HIGH_VALUE_THRESHOLD
        /\ \A j \in 1..Len(events) :
              (events[j].event = "limit_updated"
                  /\ events[j].limit.monthly_limit >= HIGH_VALUE_THRESHOLD) =>
                  (j + 1) \in HighValueIdx
        /\ Cardinality(HighValueIdx) = Cardinality(HighValueRequests(call.requests))

\* A request of exactly the threshold: limit_updated, then high_value_limit.
C23_Witness ==
    /\ BatchReturned
    /\ Len(call.requests) = 1
    /\ call.requests[1].monthly_limit = HIGH_VALUE_THRESHOLD
    /\ Len(events) = 4
    /\ events[2].event = "limit_updated"
    /\ events[3].event = "high_value_limit"

\* C24: in every batch result avg_limit_amount is total_limits_value divided
\* by successful, truncated, and 0 when successful = 0; total_requests,
\* successful_updates and failed_updates of the metrics equal total_requests,
\* successful and failed of the result.
C24_MetricsAverage ==
    BatchReturned =>
        LET r == result[1]
            m == r.metrics
        IN  /\ m.total_requests = r.total_requests
            /\ m.successful_updates = r.successful
            /\ m.failed_updates = r.failed
            /\ r.successful = 0 => m.avg_limit_amount = 0
            /\ r.successful > 0 =>
                  /\ m.avg_limit_amount * r.successful <= m.total_limits_value
                  /\ m.total_limits_value < (m.avg_limit_amount + 1) * r.successful

\* Scenario A: limits 300 and 1 stored, the mean of 301 over 2 is 150.
C24_Witness ==
    /\ BatchReturned
    /\ result[1].successful = 2
    /\ result[1].failed = 1
    /\ result[1].metrics.total_limits_value = 301
    /\ result[1].metrics.avg_limit_amount = 150

\* C25: get_spending_limit changes no stored value and returns the stored
\* limit of the user (None when there is none), and the stored limit of a
\* user changes only by a batch that replaces it or by an accepted spend of
\* that user: two reads with neither in between return the same value.
C25_ReadOnlyLimit ==
    /\ [](call.op = "get_spending_limit" => result = <<StoredAt(limits, call.user)>>)
    /\ [][/\ call'.op = "get_spending_limit" =>
                (storage' = storage /\ result' = <<StoredAt(limits, call'.user)>>)
          /\ (call.op = "get_spending_limit" /\ call'.op = "get_spending_limit"
                /\ call'.user = call.user) => result' = result
          /\ \A u \in Users :
                ~(LimitReplacedOf(u) \/ SpendAcceptedOf(u)) =>
                    StoredAt(limits', u) = StoredAt(limits, u)]_vars

\* A read, after a change of month, of a limit against which 5 was spent: the
\* stored record is returned, not the new month's total.
C25_Witness ==
    /\ call.op = "get_spending_limit"
    /\ result # <<>>
    /\ result[1] # <<>>
    /\ result[1][1].current_spending = 5
    /\ MonthId(now) = 1
    /\ <<call.user, 1>> \notin DOMAIN monthly

\* The (owner, delegate) pair a delegation call is about.
PairOf(c) == <<c.caller, c.user>>

DelegationPairs == {<<"o1", d>> : d \in Delegates}

\* C26: consume_allowance with amount > 0 on an existing delegation succeeds
\* if and only if spent + amount <= limit; on success spent increases by
\* exactly amount and the limit is unchanged, on failure the call ends with
\* AmountTooLarge and the stored delegation is unchanged.
C26_ConsumeWithinLimit ==
    [][(/\ call'.op = "consume_allowance"
        /\ call'.amount > 0
        /\ PairOf(call') \in DOMAIN delegations) =>
          LET d == delegations[PairOf(call')] IN
          IF d.spent + call'.amount <= d.limit
          THEN /\ call'.status = "ok"
               /\ delegations' = Put(delegations, PairOf(call'),
                                     [limit |-> d.limit,
                                      spent |-> d.spent + call'.amount])
          ELSE /\ call'.status = "error"
               /\ call'.code = DelegationError_AmountTooLarge
               /\ delegations' = delegations]_vars

\* C27 as stated: for a pair with no stored delegation get_delegation returns
\* None and every consume_allowance, whatever its amount, fails with
\* Unauthorized and creates no record.
C27_AbsentPairUnauthorized ==
    [][/\ (call'.op = "get_delegation" /\ PairOf(call') \notin DOMAIN delegations) =>
            (result' = <<(<<>>)>> /\ delegations' = delegations)
       /\ (call'.op = "consume_allowance" /\ PairOf(call') \notin DOMAIN delegations) =>
            /\ call'.status = "error"
            /\ call'.code = DelegationError_Unauthorized
            /\ delegations' = delegations]_vars

\* C27: for a pair with no stored delegation (never set, or removed by
\* revoke_delegation) get_delegation returns None and consume_allowance fails
\* and creates no record: with Unauthorized when amount > 0, with
\* InvalidAmount when amount <= 0. revoke_delegation leaves the pair without
\* a delegation and the delegations of the other pairs as they were, and a
\* pair without a delegation gets one only by a successful set_delegation
\* for that pair, whose spent amount starts at 0.
C27_AbsentPairRejected ==
    [][/\ (call'.op = "get_delegation" /\ PairOf(call') \notin DOMAIN delegations) =>
            (result' = <<(<<>>)>> /\ delegations' = delegations)
       /\ (call'.op = "consume_allowance" /\ PairOf(call') \notin DOMAIN delegations) =>
            /\ call'.status = "error"
            /\ call'.code = IF call'.amount > 0 THEN DelegationError_Unauthorized
                                                ELSE DelegationError_InvalidAmount
            /\ delegations' = delegations
       /\ call'.op = "revoke_delegation" =>
            /\ PairOf(call') \notin DOMAIN delegations'
            /\ \A k \in DelegationPairs \ {PairOf(call')} :
                  StoredAt(delegations', k) = StoredAt(delegations, k)
       /\ \A k \in DelegationPairs :
            (k \notin DOMAIN delegations /\ k \in DOMAIN delegations') =>
                /\ call'.op = "set_delegation"
                /\ call'.status = "ok"
                /\ PairOf(call') = k
                /\ delegations'[k] = [limit |-> call'.amount, spent |-> 0]]_vars

\* A consume of 5 is refused with Unauthorized for a pair whose delegation
\* was revoked, while the other pair keeps its delegation with 5 spent.
C27_Witness ==
    /\ call.op = "consume_allowance"
    /\ call.amount = 5
    /\ call.user = "d1"
    /\ call.status = "error"
    /\ call.code = DelegationError_Unauthorized
    /\ <<"o1", "d1">> \notin DOMAIN delegations
    /\ <<"o1", "d2">> \in DOMAIN delegations
    /\ delegations[<<"o1", "d2">>].spent = 5

\* The create_payment call of this step was rejected for its arguments.
CreateRejected == call'.amount <= 0 \/ call'.interval = 0

\* C28: create_payment returns 1, 2, 3, ... in creation order: the stored
\* ids are always exactly 1 .. PaymentCount, an accepted create returns
\* PaymentCount + 1, stores the payment under that new id and leaves the other
\* payments alone; a create rejected for amount <= 0 or interval = 0 returns
\* nothing, consumes no id and stores nothing; no other call changes the
\* counter or the set of ids.
C28_SequentialIds ==
    /\ [](DOMAIN payments = 1 .. payment_count)
    /\ [][/\ (call'.op = "create_payment" /\ CreateRejected) =>
                /\ call'.status = "panic"
                /\ result' = <<>>
                /\ payments' = payments
                /\ payment_count' = payment_count
          /\ (call'.op = "create_payment" /\ ~CreateRejected) =>
                /\ call'.status = "ok"
                /\ result' = <<payment_count + 1>>
                /\ payment_count' = payment_count + 1
                /\ payment_count + 1 \notin DOMAIN payments
                /\ DOMAIN payments' = DOMAIN payments \cup {payment_count + 1}
                /\ \A id \in DOMAIN payments : payments'[id] = payments[id]
          /\ call'.op # "create_payment" =>
                /\ payment_count' = payment_count
                /\ DOMAIN payments' = DOMAIN payments]_vars

\* The second payment gets id 2 after the first was created and canceled.
C28_Witness ==
    /\ call.op = "create_payment"
    /\ call.status = "ok"
    /\ result = <<2>>
    /\ payment_count = 2
    /\ ~payments[1].active

\* The execute_payment call of this step is for a stored, active payment.
ExecutesActive ==
    /\ call'.op = "execute_payment"
    /\ call'.payment_id \in DOMAIN payments
    /\ payments[call'.payment_id].active

\* C29: execute_payment of an active payment strictly before its
\* next_execution panics with 'Too early for next execution', transfers
\* nothing and leaves the payment record unchanged; exactly at next_execution
\* it is not refused as too early, and succeeds when the sender can pay.
C29_TooEarly ==
    [][ExecutesActive =>
          LET p == payments[call'.payment_id] IN
          /\ now < p.next_execution =>
                /\ call'.status = "panic"
                /\ call'.msg = "Too early for next execution"
                /\ balances' = balances
                /\ payments' = payments
                /\ events' = <<>>
          /\ now = p.next_execution =>
                /\ call'.msg # "Too early for next execution"
                /\ (balances[p.sender] >= p.amount
                      /\ p.next_execution + p.interval <= U64_MAX) =>
                        call'.status = "ok"]_vars

\* An execution at time 2 of a payment that starts at 2: accepted, the next
\* one is due at 4.
C29_Witness ==
    /\ call.op = "execute_payment"
    /\ call.status = "ok"
    /\ now = 2
    /\ payments[call.payment_id].next_execution = 4
    /\ balances["bob"] = 3

\* The transfers among the events of the step.
Transfers == {i \in DOMAIN events' : events'[i].event = "transfer"}

\* C30: a payment starts with next_execution = start_time, and every
\* successful execute_payment makes exactly one transfer of amount from the
\* sender to the recipient, however late it is, and leaves next_execution
\* strictly after the current ledger time, at most one interval after it, and
\* a whole number of intervals after the previous value: the first boundary
\* of the schedule start_time + k * interval that lies in the future.
C30_NextBoundary ==
    [][/\ (call'.op = "create_payment" /\ call'.status = "ok") =>
            payments'[call'.payment_id].next_execution = call'.start_time
       /\ (call'.op = "execute_payment" /\ call'.status = "ok") =>
            LET p == payments[call'.payment_id]
                q == payments'[call'.payment_id]
            IN  /\ balances' = [balances EXCEPT ![p.sender] = @ - p.amount,
                                                ![p.recipient] = @ + p.amount]
                /\ Cardinality(Transfers) = 1
                /\ \A i \in Transfers :
                      events'[i] = token_transfer(p.sender, p.recipient, p.amount)
                /\ q = [p EXCEPT !.next_execution = q.next_execution]
                /\ q.next_execution > now'
                /\ q.next_execution - p.interval <= now'
                /\ (q.next_execution - p.next_execution) % p.interval = 0
       /\ (call'.op \notin {"create_payment", "execute_payment"}
             \/ call'.status # "ok") =>
            \A id \in DOMAIN payments :
                payments'[id].next_execution = payments[id].next_execution]_vars

\* An execution at time 7 of a payment due since 2 with interval 2: one
\* transfer of 3, and the next execution is due at 8.
C30_Witness ==
    /\ call.op = "execute_payment"
    /\ call.status = "ok"
    /\ now = 7
    /\ payments[call.payment_id].next_execution = 8
    /\ payments[call.payment_id].interval = 2
    /\ balances["bob"] = 3
    /\ Len(events) = 2

\* C31: cancellation is terminal. A successful cancel_payment sets active to
\* false and leaves the other payments as they were; from then on the record
\* of the canceled payment never changes (active is never set back), every
\* execute_payment of it panics with 'Payment is not active' and every
\* cancel_payment of it with 'Payment is already canceled'.
C31_CancelTerminal ==
    [][/\ (call'.op = "cancel_payment" /\ call'.status = "ok") =>
            /\ ~payments'[call'.payment_id].active
            /\ \A id \in DOMAIN payments \ {call'.payment_id} :
                  payments'[id] = payments[id]
       /\ \A id \in DOMAIN payments :
            ~payments[id].active =>
                /\ payments'[id] = payments[id]
                /\ (call'.op = "execute_payment" /\ call'.payment_id = id) =>
                      /\ call'.status = "panic"
                      /\ call'.msg = "Payment is not active"
                      /\ balances' = balances
                /\ (call'.op = "cancel_payment" /\ call'.payment_id = id) =>
                      /\ call'.status = "panic"
                      /\ call'.msg = "Payment is already canceled"]_vars

\* Payment 1 was canceled and is refused at time 7, long after it was due,
\* while payment 2 is still active and has executed.
C31_Witness ==
    /\ call.op = "execute_payment"
    /\ call.payment_id = 1
    /\ call.status = "panic"
    /\ call.msg = "Payment is not active"
    /\ now = 7
    /\ ~payments[1].active
    /\ payments[1].next_execution = 2
    /\ 2 \in DOMAIN payments
    /\ payments[2].active
    /\ payments[2].next_execution = 4

\* C40: in every reachable state every stored delegation satisfies
\* 0 <= spent <= limit, whatever the interleaving of set_delegation (which
\* keeps spent when it re-sets the limit of an existing delegation),
\* consume_allowance and revoke_delegation.
C40_SpentWithinLimit ==
    \A key \in DOMAIN delegations :
        /\ 0 <= delegations[key].spent
        /\ delegations[key].spent <= delegations[key].limit

\* The sum of the stored counters under the given keys.
RECURSIVE SumOver(_, _)
SumOver(store, keys) ==
    IF keys = {} THEN 0
    ELSE LET k == CHOOSE x \in keys : TRUE IN store[k] + SumOver(store, keys \ {k})

\* The stored DailySpending keys of the user whose day belongs to the month.
DaysOfMonth(u, month_id) ==
    {k \in DOMAIN daily : k[1] = u /\ k[2] \div 30 = month_id}

\* The months for which the user has a counter of either kind.
MonthsOf(u) ==
    {k[2] : k \in {x \in DOMAIN monthly : x[1] = u}}
    \cup {k[2] \div 30 : k \in {x \in DOMAIN daily : x[1] = u}}

\* C35: in every reachable state, for every user and every month, the stored
\* MonthlySpending counter equals the sum of the user's stored DailySpending
\* counters of the days of that month (day_id / 30 = month_id), an absent
\* counter counting as 0.
C35_MonthIsSumOfDays ==
    \A u \in Users : \A month_id \in MonthsOf(u) :
        GetOr0(monthly, <<u, month_id>>) = SumOver(daily, DaysOfMonth(u, month_id))

\* 5 was spent on day 0 and 6 on day 1: the counter of month 0 holds 11.
C35_Witness ==
    /\ <<"u1", 0>> \in DOMAIN daily
    /\ <<"u1", 1>> \in DOMAIN daily
    /\ daily[<<"u1", 0>>] = 5
    /\ daily[<<"u1", 1>>] = 6
    /\ monthly[<<"u1", 0>>] = 11

\* C38: a successful batch update leaves every DailySpending and
\* MonthlySpending counter unchanged, and an enforced spend is accepted
\* exactly when the counters stored for the current day and month plus the
\* amount fit the limit stored now and the daily cap derived from it: after
\* an update, the new limit is checked against the spend accumulated before.
C38_UpdateKeepsCounters ==
    [][/\ BatchAccepted => (daily' = daily /\ monthly' = monthly)
       /\ SpendEnforced =>
            LET u == call'.user
                m == limits[u].monthly_limit
                spent_today == GetOr0(daily, <<u, StatedDayId(now)>>)
                spent_this_month == GetOr0(monthly, <<u, StatedMonthId(now)>>)
            IN  call'.status = "ok" <=>
                    /\ spent_today + call'.amount <= StatedDailyCap(m)
                    /\ spent_this_month + call'.amount <= m]_vars

\* 5 was spent under a limit of 300; the limit was then replaced by 1 and a
\* spend of 5 on the same day is refused against the 5 already counted.
C38_Witness ==
    /\ call.op = "enforce_spending_limit"
    /\ call.user = "u1"
    /\ call.amount = 5
    /\ call.status = "error"
    /\ call.code = DailyLimitExceeded
    /\ limits["u1"].monthly_limit = 1
    /\ limits["u1"].current_spending = 0
    /\ GetOr0(daily, <<"u1", DayId(now)>>) = 5
    /\ events[1].remaining_daily = 0

\* Whether a spend of the amount by the user would be accepted now, by the
\* stated rules.
WouldAccept(u, amount) ==
    /\ amount > 0
    /\ (u \in DOMAIN limits /\ limits[u].is_active) =>
          /\ GetOr0(daily, <<u, StatedDayId(now)>>) + amount
                <= StatedDailyCap(limits[u].monthly_limit)
          /\ GetOr0(monthly, <<u, StatedMonthId(now)>>) + amount
                <= limits[u].monthly_limit

\* The stored counters of the user are the same before and after the step.
CountersKept(u) ==
    /\ \A k \in DOMAIN daily \cup DOMAIN daily' :
          k[1] = u => StoredAt(daily', k) = StoredAt(daily, k)
    /\ \A k \in DOMAIN monthly \cup DOMAIN monthly' :
          k[1] = u => StoredAt(monthly', k) = StoredAt(monthly, k)

\* C39: enforce_spending_limit(user, amount), accepted or rejected, leaves
\* the admin, last_batch_id, total_limits_updated, total_batches_processed
\* and, for every other user, the SpendingLimit and all period counters
\* unchanged; whether a spend of another user would be accepted is the same
\* before and after.
C39_SpendFrame ==
    [][call'.op = "enforce_spending_limit" =>
          /\ admin' = admin
          /\ last_batch_id' = last_batch_id
          /\ total_limits_updated' = total_limits_updated
          /\ total_batches_processed' = total_batches_processed
          /\ \A v \in Users \ {call'.user} :
                /\ StoredAt(limits', v) = StoredAt(limits, v)
                /\ CountersKept(v)
                /\ \A amount \in {1, 5, 6, I128_MAX} :
                      WouldAccept(v, amount)' = WouldAccept(v, amount)]_vars

\* A spend of 5 by u1 is accepted while u2 has a limit of 1 and has spent 1
\* today: the records of u2 are as they were.
C39_Witness ==
    /\ call.op = "enforce_spending_limit"
    /\ call.user = "u1"
    /\ call.status = "ok"
    /\ GetOr0(daily, <<"u1", DayId(now)>>) = 5
    /\ "u2" \in DOMAIN limits
    /\ limits["u2"].monthly_limit = 1
    /\ GetOr0(daily, <<"u2", DayId(now)>>) = 1
    /\ GetOr0(monthly, <<"u2", MonthId(now)>>) = 1

\* C36: while the limit of a user is not replaced after the user's first
\* accepted spend, every stored DailySpending counter of the user is at most
\* the daily cap derived from the stored monthly_limit and every stored
\* MonthlySpending counter is at most monthly_limit.
C36_CountersWithinCaps ==
    /\ \A k \in DOMAIN daily :
          /\ k[1] \in DOMAIN limits
          /\ daily[k] <= StatedDailyCap(limits[k[1]].monthly_limit)
    /\ \A k \in DOMAIN monthly :
          /\ k[1] \in DOMAIN limits
          /\ monthly[k] <= limits[k[1]].monthly_limit

\* Under a limit of 1 the day's counter of u2 stands at the cap of 1, and a
\* further spend of 1 was refused.
C36_Witness ==
    /\ "u2" \in DOMAIN limits
    /\ limits["u2"].monthly_limit = 1
    /\ GetOr0(daily, <<"u2", DayId(now)>>) = 1
    /\ GetOr0(monthly, <<"u2", MonthId(now)>>) = 1
    /\ call.op = "enforce_spending_limit"
    /\ call.user = "u2"
    /\ call.code = DailyLimitExceeded

\* C37: for a user whose limit was set once with monthly_limit >= 30 and is
\* never replaced, no enforce_spending_limit aborts with
\* MonthlyLimitExceeded: a spend that would pass the monthly cap passes the
\* daily cap too and aborts with DailyLimitExceeded, because the month's
\* counter never exceeds 30 * (monthly_limit / 30) <= monthly_limit.
C37_NeverMonthlyExceeded ==
    /\ [](\A u \in DOMAIN limits :
            limits[u].monthly_limit >= 30 =>
                \A k \in DOMAIN monthly :
                    k[1] = u =>
                        /\ monthly[k] <= 30 * (limits[u].monthly_limit \div 30)
                        /\ 30 * (limits[u].monthly_limit \div 30) <= limits[u].monthly_limit)
    /\ [][(SpendEnforced /\ limits[call'.user].monthly_limit >= 30) =>
            /\ call'.code # MonthlyLimitExceeded
            /\ (GetOr0(monthly, <<call'.user, StatedMonthId(now)>>) + call'.amount
                    > limits[call'.user].monthly_limit) =>
                  (call'.status = "error" /\ call'.code = DailyLimitExceeded)]_vars

\* On the 30th day of a month spent to the cap under a limit of 60 the month's
\* counter is 60; a spend of 1 would pass both caps and is refused with
\* DailyLimitExceeded.
C37_Witness ==
    /\ limits["u1"].monthly_limit = 60
    /\ DayId(now) = 29
    /\ GetOr0(monthly, <<"u1", 0>>) = 60
    /\ GetOr0(daily, <<"u1", 29>>) = 2
    /\ call.op = "enforce_spending_limit"
    /\ call.amount = 1
    /\ call.status = "error"
    /\ call.code = DailyLimitExceeded
    /\ events[1].remaining_monthly = 0

----------------------------------------------------------------------------
(* The fraud contract (contracts/fraud.rs): check_transaction flags a      *)
(* transaction by its size and by the user's running total of the day.     *)

DEFAULT_FRAUD_THRESHOLD == 10000
MAX_DAILY == 100000

\* Days of the clock the fraud totals are explored for; a further transaction
\* is explored while the day's running total is between 0 and MaxFraudTotal.
FraudDays == 2
MaxFraudTotal == 110000

outside_fraud == <<storage, delegation_storage, recurring_storage,
                   timelock_storage, budget_storage, budget_history, sequence>>

\* The host moves the clock to the next day.
next_day ==
    /\ DayId(now) + 1 < FraudDays
    /\ now' = now + SECONDS_PER_DAY
    /\ call' = [NoCall EXCEPT !.op = "next_day"]
    /\ result' = <<>>
    /\ events' = <<>>
    /\ UNCHANGED <<fraud_storage, outside_fraud>>

fraud_alert(user, amount, reasons) ==
    [event |-> "fraud_alert", user |-> user, amount |-> amount, reasons |-> reasons]

\* Rule 1: the reasons pushed for the size of the transaction.
abnormal_size(amount) ==
    IF amount >= DEFAULT_FRAUD_THRESHOLD THEN <<"abnormal_size">> ELSE <<>>

\* Rule 2: the reasons pushed for the day's total.
daily_limit(new_total) ==
    IF new_total > MAX_DAILY THEN <<"daily_limit">> ELSE <<>>

check_transaction(user, amount) ==
    LET c == [NoCall EXCEPT !.op = "check_transaction", !.user = user,
                            !.amount = amount]
        today == now \div 86400
        user_key == <<user, today>>
        prev_total == GetOr0(fraud_totals, user_key)
        new_total == checked_add(prev_total, amount)
    IN
    /\ prev_total >= 0
    /\ prev_total <= MaxFraudTotal
    /\ UNCHANGED <<now, outside_fraud>>
    /\ IF new_total = <<>>
       THEN /\ call' = Panic(c, "attempt to add with overflow")
            /\ result' = <<>>
            /\ events' = <<>>
            /\ UNCHANGED fraud_totals
       ELSE LET reasons == abnormal_size(amount) \o daily_limit(new_total[1])
                flagged == reasons # <<>>
            IN  /\ fraud_totals' = Put(fraud_totals, user_key, new_total[1])
                /\ call' = Ok(c)
                /\ result' = <<flagged>>
                /\ events' = IF flagged
                                THEN <<fraud_alert(user, amount, reasons)>>
                                ELSE <<>>

FraudUsers == {"u1"}
FraudAmounts == {-20000, 5000, 10000, 60000}

NextFraud ==
    \/ next_day
    \/ \E user \in FraudUsers, amount \in FraudAmounts : check_transaction(user, amount)

SpecFraud == Init /\ [][NextFraud]_vars

\* The running total of the user for the current day.
FraudTotal(user) == GetOr0(fraud_totals, <<user, DayId(now)>>)

Checked(user) ==
    /\ call'.op = "check_transaction"
    /\ call'.status = "ok"
    /\ call'.user = user

Flagged == result' = <<TRUE>>

\* The last call was a transaction of the user on the given day with a
\* positive amount, and it was not flagged.
PositiveUnflagged(user, day) ==
    /\ call.op = "check_transaction"
    /\ call.status = "ok"
    /\ call.user = user
    /\ call.amount > 0
    /\ DayId(now) = day
    /\ result = <<FALSE>>

\* The part of C34 the code keeps: the flag and the alert follow the two
\* rules, and every call adds its amount to the day's total.
C34_FlagRules ==
    [][\A user \in FraudUsers : Checked(user) =>
        /\ Flagged <=> (call'.amount >= 10000
                            \/ FraudTotal(user) + call'.amount > 100000)
        /\ Flagged <=> (events' # <<>>)
        /\ FraudTotal(user)' = FraudTotal(user) + call'.amount]_vars

\* The fraud contract on a day on which the total of the user has exceeded
\* 100_000: the state after check_transaction(u1, 60_000) and nine calls
\* check_transaction(u1, 5_000), the last of which took the total to 105_000
\* and was flagged for the daily limit.
InitFraudOver ==
    /\ admin = <<>>
    /\ last_batch_id = 0
    /\ total_limits_updated = 0
    /\ total_batches_processed = 0
    /\ limits = EmptyStore
    /\ daily = EmptyStore
    /\ monthly = EmptyStore
    /\ now = 0
    /\ sequence = 0
    /\ call = Ok([NoCall EXCEPT !.op = "check_transaction", !.user = "u1",
                                !.amount = 5000])
    /\ result = <<TRUE>>
    /\ events = <<fraud_alert("u1", 5000, daily_limit(105000))>>
    /\ delegations = EmptyStore
    /\ payments = EmptyStore
    /\ payment_count = 0
    /\ balances = InitialBalances
    /\ timelocks = EmptyStore
    /\ timelock_id_counter = 0
    /\ tx_admin = <<>>
    /\ tx_balances = [a \in {"alice", "bob"} |-> 0]
    /\ budget_admin = <<>>
    /\ budgets = EmptyStore
    /\ budget_members = {}
    /\ total_budgets_created = 0
    /\ contributions = EmptyStore
    /\ total_contributions_processed = 0
    /\ budget_contributed = EmptyStore
    /\ budget_spent = EmptyStore
    /\ fraud_totals = Put(EmptyStore, <<"u1", 0>>, 105000)

SpecFraudOver == InitFraudOver /\ [][NextFraud]_vars

\* C34: check_transaction returns true, and publishes a fraud alert, exactly
\* when the amount is at least 10_000 or the day's total including the amount
\* is above 100_000; every call adds the amount to the day's total of the
\* user; and once that total is above 100_000, every later call of the user
\* on that day with a positive amount is flagged: on the day on which the
\* total has exceeded 100_000, no call with a positive amount returns false.
C34_FraudFlagging ==
    /\ C34_FlagRules
    /\ [](DayId(now) = 0 => ~PositiveUnflagged("u1", 0))

----------------------------------------------------------------------------
(* The shared-budgets contract (contracts/shared-budgets/src/lib.rs): a    *)
(* budget is created with its members and spending rules, anyone           *)
(* contributes tokens to it, and its members spend from it.                *)

SharedBudgetError_Unauthorized == 2
SharedBudgetError_BudgetNotFound == 3
SharedBudgetError_MemberAlreadyExists == 4
SharedBudgetError_MemberNotFound == 5
SharedBudgetError_InvalidAmount == 7
SharedBudgetError_InsufficientBalance == 8
SharedBudgetError_InvalidPercentage == 9
SharedBudgetError_BudgetNotActive == 11
SharedBudgetError_TooManyMembers == 12
SharedBudgetError_TooManyRules == 13

MAX_BUDGET_MEMBERS == 20
MAX_SPENDING_RULES == 10

\* Budgets created while the model explores.
MaxBudgets == 1
\* A rule is added while the budget has fewer rules than this.
MaxRules == 1

\* env.current_contract_address() of the shared-budgets contract.
Pool == "pool"

outside_budgets == <<storage, delegation_storage, payments, payment_count,
                     timelock_storage, fraud_storage, now, sequence>>

budget_created(budget_id, creator, members, token) ==
    [event |-> "budget_created", budget_id |-> budget_id, creator |-> creator,
     members |-> members, token |-> token]

contribution_added(budget_id, contributor, amount) ==
    [event |-> "budget_contrib", budget_id |-> budget_id,
     contributor |-> contributor, amount |-> amount]

spending_rule_added(budget_id, rule) ==
    [event |-> "budget_rule", budget_id |-> budget_id,
     applicable_to |-> rule.applicable_to,
     percentage_threshold |-> rule.percentage_threshold,
     requires_approval |-> rule.requires_approval]

expense_incurred(budget_id, spender, recipient, amount) ==
    [event |-> "expense_incurred", budget_id |-> budget_id, spender |-> spender,
     recipient |-> recipient, amount |-> amount]

\* validation::validate_amount and validate_percentage: TRUE for Ok(()).
validate_amount(amount) == amount > 0

validate_percentage(percentage) == percentage <= 100

\* initialize: refused once an admin is stored; it writes both counters
\* as 0 whenever it runs, also on a contract already in use.
budget_initialize(new_admin) ==
    LET c == [NoCall EXCEPT !.op = "budget_initialize", !.caller = new_admin] IN
    /\ UNCHANGED <<balances, budget_history, outside_budgets>>
    /\ result' = <<>>
    /\ events' = <<>>
    /\ IF budget_admin # <<>>
       THEN /\ call' = Panic(c, "Contract already initialized")
            /\ UNCHANGED budget_storage
       ELSE /\ call' = Ok(c)
            /\ budget_admin' = <<new_admin>>
            /\ total_budgets_created' = 0
            /\ total_contributions_processed' = 0
            /\ UNCHANGED <<budgets, budget_members, contributions>>

\* require_admin: <<>> when the caller is the admin, else the outcome of the
\* call that asked.
budget_require_admin(c, caller) ==
    IF budget_admin = <<>> THEN <<Panic(c, "Contract not initialized")>>
    ELSE IF budget_admin[1] # caller THEN <<Error(c, SharedBudgetError_Unauthorized)>>
    ELSE <<>>

budget_set_admin(current_admin, new_admin) ==
    LET c == [NoCall EXCEPT !.op = "budget_set_admin", !.caller = current_admin,
                            !.user = new_admin]
        refused == budget_require_admin(c, current_admin)
    IN
    /\ UNCHANGED <<balances, budget_history, outside_budgets>>
    /\ result' = <<>>
    /\ events' = <<>>
    /\ UNCHANGED <<budgets, budget_members, total_budgets_created, contributions,
                   total_contributions_processed>>
    /\ IF refused # <<>>
       THEN call' = refused[1] /\ UNCHANGED budget_admin
       ELSE call' = Ok(c) /\ budget_admin' = <<new_admin>>

\* create_budget.  The id is the stored counter + 1 in plain u64 arithmetic,
\* which panics on overflow.
create_budget(creator, budget_name, members, token, spending_rules) ==
    LET c == [NoCall EXCEPT !.op = "create_budget", !.caller = creator]
        budget_id == total_budgets_created + 1
        budget == [id |-> budget_id, name |-> budget_name, creator |-> creator,
                   token |-> token, members |-> members, balance |-> 0,
                   total_contributed |-> 0, spending_rules |-> spending_rules,
                   is_active |-> TRUE, created_at |-> now]
        rejected(code) == /\ call' = Error(c, code)
                          /\ result' = <<>>
                          /\ events' = <<>>
                          /\ UNCHANGED budget_storage
    IN
    /\ total_budgets_created < MaxBudgets
    /\ UNCHANGED <<balances, budget_history, outside_budgets>>
    /\ IF Len(members) > MAX_BUDGET_MEMBERS
       THEN rejected(SharedBudgetError_TooManyMembers)
       ELSE IF Len(spending_rules) > MAX_SPENDING_RULES
       THEN rejected(SharedBudgetError_TooManyRules)
       ELSE IF \E i \in DOMAIN spending_rules :
                    ~validate_percentage(spending_rules[i].percentage_threshold)
       THEN rejected(SharedBudgetError_InvalidPercentage)
       ELSE IF budget_id > U64_MAX
       THEN /\ call' = Panic(c, "attempt to add with overflow")
            /\ result' = <<>>
            /\ events' = <<>>
            /\ UNCHANGED budget_storage
       ELSE /\ budgets' = Put(budgets, budget_id, budget)
            /\ total_budgets_created' = budget_id
            /\ budget_members' = budget_members
                    \cup {<<budget_id, members[i]>> : i \in DOMAIN members}
            /\ UNCHANGED <<budget_admin, contributions, total_contributions_processed>>
            /\ call' = Ok([c EXCEPT !.budget_id = budget_id])
            /\ result' = <<budget_id>>
            /\ events' = <<budget_created(budget_id, creator, members, token)>>

\* contribute_to_budget.  balance += amount, total_contributed += amount and
\* the contribution id, the stored counter + 1, are plain arithmetic, which
\* panics on overflow; the panic discards the transfer and every write.
contribute_to_budget(contributor, budget_id, amount) ==
    LET c == [NoCall EXCEPT !.op = "contribute_to_budget", !.caller = contributor,
                            !.budget_id = budget_id, !.amount = amount]
        rejected(outcome) == /\ call' = outcome
                             /\ result' = <<>>
                             /\ events' = <<>>
                             /\ UNCHANGED <<budget_storage, budget_history, balances>>
    IN
    /\ UNCHANGED outside_budgets
    /\ IF ~validate_amount(amount)
       THEN rejected(Error(c, SharedBudgetError_InvalidAmount))
       ELSE IF budget_id \notin DOMAIN budgets
       THEN rejected(Error(c, SharedBudgetError_BudgetNotFound))
       ELSE LET budget == budgets[budget_id]
                paid == transferred(contributor, Pool, amount)
                balance == checked_add(budget.balance, amount)
                total == checked_add(budget.total_contributed, amount)
                contribution == [budget_id |-> budget_id, contributor |-> contributor,
                                 amount |-> amount, timestamp |-> now]
                contribution_id == total_contributions_processed + 1
            IN  IF ~budget.is_active
                THEN rejected(Error(c, SharedBudgetError_BudgetNotActive))
                ELSE IF paid = <<>>
                THEN rejected(Panic(c, "balance is not sufficient to spend"))
                ELSE IF balance = <<>> \/ total = <<>>
                THEN rejected(Panic(c, "attempt to add with overflow"))
                ELSE IF contribution_id > U64_MAX
                THEN rejected(Panic(c, "attempt to add with overflow"))
                ELSE /\ balances' = paid[1]
                     /\ budgets' = Put(budgets, budget_id,
                                       [budget EXCEPT !.balance = balance[1],
                                                      !.total_contributed = total[1]])
                     /\ contributions' = Put(contributions, contribution_id, contribution)
                     /\ total_contributions_processed' = contribution_id
                     /\ budget_contributed' = Put(budget_contributed, budget_id,
                            GetOr0(budget_contributed, budget_id) + amount)
                     /\ UNCHANGED budget_spent
                     /\ UNCHANGED <<budget_admin, budget_members, total_budgets_created>>
                     /\ call' = Ok(c)
                     /\ result' = <<>>
                     /\ events' = <<token_transfer(contributor, Pool, amount),
                                    contribution_added(budget_id, contributor, amount)>>

\* storage().persistent().get(BudgetMember(budget_id, spender)).unwrap_or(false)
is_member(budget_id, spender) == <<budget_id, spender>> \in budget_members

\* The threshold of a rule is computed in f64:
\*   (total_contributed as f64 * (percentage_threshold as f64 / 100.0)) as i128.
\* The quotient p / 100.0 is the f64 nearest to p/100: with 2^-k <= p/100 <
\* 2^(1-k) it is M / 2^(52+k) for the integer M nearest to p * 2^(52+k) / 100,
\* that is (p * 2^(52+k) + r) / (100 * 2^(52+k)) with r = 100 * M - p * 2^(52+k).
RECURSIVE Pow2(_)
Pow2(n) == IF n = 0 THEN 1 ELSE 2 * Pow2(n - 1)

RECURSIVE Pow2Mod100(_)
Pow2Mod100(n) == IF n = 0 THEN 1 ELSE (2 * Pow2Mod100(n - 1)) % 100

\* k with 2^-k <= p/100 < 2^(1-k), for 1 <= p <= 99.
f64_binade(percentage) ==
    CHOOSE k \in 1..7 : percentage * Pow2(k) >= 100 /\ percentage * Pow2(k - 1) < 100

\* r: the rounding error of p / 100.0, in units of 1 / (100 * 2^(52+k)).
f64_residue(percentage) ==
    LET m == (percentage * Pow2Mod100(52 + f64_binade(percentage))) % 100
    IN  IF m <= 50 THEN -m ELSE 100 - m

\* The integer part of a positive integer's binary logarithm.
RECURSIVE Log2(_)
Log2(n) == IF n <= 1 THEN 0 ELSE 1 + Log2(n \div 2)

\* For totals below 2^30 and percentages up to 100 the product is computed
\* without numbers of 2^52 and more.  The exact product of the two f64 values
\* is total * p / 100 + total * r / (100 * 2^(52+k)); the second term is far
\* below 1/100 and the f64 values near the product are less than 1/100 apart,
\* so the result is the integer quotient unless total * p / 100 is an integer
\* n, r is negative, and the product lies more than half a unit in the last
\* place (of the f64 just below n) under n: then it is n - 1.
f64_product_below_2_30(total_contributed, percentage_threshold) ==
    LET n == (total_contributed * percentage_threshold) \div 100
        exact == (total_contributed * percentage_threshold) % 100 = 0
    IN  IF ~exact \/ n < 1 \/ percentage_threshold >= 100
        THEN n
        ELSE LET r == f64_residue(percentage_threshold)
                 k == f64_binade(percentage_threshold)
                 j == IF n = Pow2(Log2(n)) THEN Log2(n) - 1 ELSE Log2(n)
             IN  IF r < 0 /\ (total_contributed * (-r) - 1) \div 100
                                   >= Pow2(k - 1 + j)
                 THEN n - 1
                 ELSE n

\* The integer nearest to a / b, the even one of two equally near: the
\* rounding of every f64 operation.
round_ties_even(a, b) ==
    LET fl == a \div b
        rem == a % b
    IN  IF 2 * rem > b \/ (2 * rem = b /\ fl % 2 = 1) THEN fl + 1 ELSE fl

\* The significant bits of an f64.
F64_MANTISSA_DIGITS == 53

\* A positive integer rounded to the nearest one with F64_MANTISSA_DIGITS
\* significant bits: `as f64` of an i128, and the rounding of a product of
\* two mantissas.
f64_round(n) ==
    IF Log2(n) < F64_MANTISSA_DIGITS
    THEN n
    ELSE LET d == Log2(n) - (F64_MANTISSA_DIGITS - 1)
         IN  round_ties_even(n, Pow2(d)) * Pow2(d)

\* The number of doublings that bring num up to den.
RECURSIVE DoublingsTo(_, _)
DoublingsTo(num, den) == IF num >= den THEN 0 ELSE 1 + DoublingsTo(2 * num, den)

\* s with 2^52 <= p * 2^s / 100 < 2^53: p / 100.0 is M / 2^s for the integer
\* M nearest to p * 2^s / 100.
f64_scale(percentage) ==
    IF percentage >= 100
    THEN (F64_MANTISSA_DIGITS - 1) - Log2(percentage \div 100)
    ELSE (F64_MANTISSA_DIGITS - 1) + DoublingsTo(percentage, 100)

\* (total as f64 * (p as f64 / 100.0)) as i128 for a positive total, step by
\* step: the total rounded to f64, the quotient rounded to f64, their product
\* rounded to f64, and the cast, which drops the fraction and stops at
\* i128::MAX = 2^127 - 1.
f64_product(total_contributed, percentage_threshold) ==
    IF percentage_threshold = 0
    THEN 0
    ELSE LET s == f64_scale(percentage_threshold)
             quotient == round_ties_even(percentage_threshold * Pow2(s), 100)
             product == f64_round(f64_round(total_contributed) * quotient)
             truncated == product \div Pow2(s)
         IN  IF truncated > Pow2(127) - 1 THEN Pow2(127) - 1 ELSE truncated

\* The threshold of a rule.  Both operators give the value of the code's
\* expression; the first is used where it applies because it needs no number
\* above total * 100.
threshold_amount(total_contributed, percentage_threshold) ==
    IF total_contributed > 0
    THEN IF total_contributed < Pow2(30) /\ percentage_threshold <= 100
         THEN f64_product_below_2_30(total_contributed, percentage_threshold)
         ELSE f64_product(total_contributed, percentage_threshold)
    ELSE 0

\* enforce_spending_rules: TRUE when no rule of the spender panics.
enforce_spending_rules(budget, spender, amount) ==
    \A i \in DOMAIN budget.spending_rules :
        LET rule == budget.spending_rules[i] IN
        rule.applicable_to = spender =>
            ~(/\ amount > threshold_amount(budget.total_contributed,
                                           rule.percentage_threshold)
              /\ ~rule.requires_approval)

spend_from_budget(spender, budget_id, recipient, amount) ==
    LET c == [NoCall EXCEPT !.op = "spend_from_budget", !.caller = spender,
                            !.budget_id = budget_id, !.user = recipient,
                            !.amount = amount]
        rejected(outcome) == /\ call' = outcome
                             /\ result' = <<>>
                             /\ events' = <<>>
                             /\ UNCHANGED <<budget_storage, budget_history, balances>>
    IN
    /\ UNCHANGED outside_budgets
    /\ IF ~validate_amount(amount)
       THEN rejected(Error(c, SharedBudgetError_InvalidAmount))
       ELSE IF budget_id \notin DOMAIN budgets
       THEN rejected(Error(c, SharedBudgetError_BudgetNotFound))
       ELSE LET budget == budgets[budget_id]
                paid == transferred(Pool, recipient, amount)
            IN  IF ~budget.is_active
                THEN rejected(Error(c, SharedBudgetError_BudgetNotActive))
                ELSE IF ~is_member(budget_id, spender)
                THEN rejected(Error(c, SharedBudgetError_MemberNotFound))
                ELSE IF budget.balance < amount
                THEN rejected(Error(c, SharedBudgetError_InsufficientBalance))
                ELSE IF ~enforce_spending_rules(budget, spender, amount)
                THEN rejected(Error(c, SharedBudgetError_Unauthorized))
                ELSE IF paid = <<>>
                THEN rejected(Panic(c, "balance is not sufficient to spend"))
                ELSE /\ balances' = paid[1]
                     /\ budgets' = Put(budgets, budget_id,
                                       [budget EXCEPT !.balance = @ - amount])
                     /\ budget_spent' = Put(budget_spent, budget_id,
                            GetOr0(budget_spent, budget_id) + amount)
                     /\ UNCHANGED budget_contributed
                     /\ UNCHANGED <<budget_admin, budget_members, total_budgets_created,
                                    contributions, total_contributions_processed>>
                     /\ call' = Ok(c)
                     /\ result' = <<>>
                     /\ events' = <<token_transfer(Pool, recipient, amount),
                                    expense_incurred(budget_id, spender, recipient,
                                                     amount)>>

\* The caller of a change to a budget is its creator or the admin: <<>>, or
\* the outcome of require_admin.
creator_or_admin(c, budget, caller) ==
    IF caller # budget.creator THEN budget_require_admin(c, caller) ELSE <<>>

\* add_member_to_budget.  The source has the checks and the push of the new
\* member; the rest of the body is missing from it and is taken from
\* test_add_member_to_budget: the budget is stored and the member key is set.
add_member_to_budget(caller, budget_id, new_member) ==
    LET c == [NoCall EXCEPT !.op = "add_member_to_budget", !.caller = caller,
                            !.budget_id = budget_id, !.user = new_member]
        rejected(outcome) == /\ call' = outcome
                             /\ UNCHANGED budget_storage
    IN
    /\ UNCHANGED <<balances, budget_history, outside_budgets>>
    /\ result' = <<>>
    /\ events' = <<>>
    /\ IF budget_id \notin DOMAIN budgets
       THEN rejected(Error(c, SharedBudgetError_BudgetNotFound))
       ELSE LET budget == budgets[budget_id]
                refused == creator_or_admin(c, budget, caller)
            IN  IF refused # <<>>
                THEN rejected(refused[1])
                ELSE IF is_member(budget_id, new_member)
                THEN rejected(Error(c, SharedBudgetError_MemberAlreadyExists))
                ELSE IF Len(budget.members) >= MAX_BUDGET_MEMBERS
                THEN rejected(Error(c, SharedBudgetError_TooManyMembers))
                ELSE /\ call' = Ok(c)
                     /\ budgets' = Put(budgets, budget_id,
                            [budget EXCEPT !.members = Append(@, new_member)])
                     /\ budget_members' = budget_members \cup {<<budget_id, new_member>>}
                     /\ UNCHANGED <<budget_admin, total_budgets_created, contributions,
                                    total_contributions_processed>>

\* add_spending_rule.  The source has only the end of the body (the event,
\* the push of the rule, the store); the checks before it are missing and are
\* taken to be those of add_member_to_budget and of create_budget.
add_spending_rule(caller, budget_id, rule) ==
    LET c == [NoCall EXCEPT !.op = "add_spending_rule", !.caller = caller,
                            !.budget_id = budget_id, !.user = rule.applicable_to,
                            !.amount = rule.percentage_threshold]
        rejected(outcome) == /\ call' = outcome
                             /\ events' = <<>>
                             /\ UNCHANGED budget_storage
    IN
    /\ budget_id \in DOMAIN budgets => Len(budgets[budget_id].spending_rules) < MaxRules
    /\ UNCHANGED <<balances, budget_history, outside_budgets>>
    /\ result' = <<>>
    /\ IF budget_id \notin DOMAIN budgets
       THEN rejected(Error(c, SharedBudgetError_BudgetNotFound))
       ELSE LET budget == budgets[budget_id]
                refused == creator_or_admin(c, budget, caller)
            IN  IF refused # <<>>
                THEN rejected(refused[1])
                ELSE IF ~validate_percentage(rule.percentage_threshold)
                THEN rejected(Error(c, SharedBudgetError_InvalidPercentage))
                ELSE IF Len(budget.spending_rules) >= MAX_SPENDING_RULES
                THEN rejected(Error(c, SharedBudgetError_TooManyRules))
                ELSE /\ call' = Ok(c)
                     /\ events' = <<spending_rule_added(budget_id, rule)>>
                     /\ budgets' = Put(budgets, budget_id,
                            [budget EXCEPT !.spending_rules = Append(@, rule)])
                     /\ UNCHANGED <<budget_admin, budget_members, total_budgets_created,
                                    contributions, total_contributions_processed>>

\* get_budget: the stored budget, BudgetNotFound when there is none.
get_budget(budget_id) ==
    LET c == [NoCall EXCEPT !.op = "get_budget", !.budget_id = budget_id] IN
    /\ UNCHANGED <<budget_storage, budget_history, balances, outside_budgets>>
    /\ events' = <<>>
    /\ IF budget_id \in DOMAIN budgets
       THEN call' = Ok(c) /\ result' = <<budgets[budget_id]>>
       ELSE call' = Error(c, SharedBudgetError_BudgetNotFound) /\ result' = <<>>

SpendingRule(applicable_to, percentage_threshold, requires_approval) ==
    [applicable_to |-> applicable_to, percentage_threshold |-> percentage_threshold,
     requires_approval |-> requires_approval]

MemberLists == {<<"alice">>}
RuleLists == {<<>>, <<SpendingRule("alice", 101, FALSE)>>}
BudgetIds == 1..MaxBudgets
Contributors == {"alice"}
ContributionAmounts == {0, 3, 4, MaxFunds + 1}
Spenders == {"alice", "carol", "bob"}
Recipients == {"bob"}
SpendAmounts == {0, 2, 4}

BudgetAdmins == {"adm"}
BudgetManagers == {"alice", "adm", "bob"}
AddedMembers == {"carol"}
AddedRules == {SpendingRule("alice", 50, FALSE), SpendingRule("carol", 101, TRUE)}

NextBudgets ==
    \/ \E new_admin \in BudgetAdmins : budget_initialize(new_admin)
    \/ \E current_admin \in BudgetManagers, new_admin \in BudgetAdmins :
            budget_set_admin(current_admin, new_admin)
    \/ \E members \in MemberLists, spending_rules \in RuleLists :
            create_budget("alice", "trip", members, "token", spending_rules)
    \/ \E caller \in BudgetManagers, budget_id \in BudgetIds,
          new_member \in AddedMembers :
            add_member_to_budget(caller, budget_id, new_member)
    \/ \E caller \in BudgetManagers, budget_id \in BudgetIds, rule \in AddedRules :
            add_spending_rule(caller, budget_id, rule)
    \/ \E budget_id \in BudgetIds, amount \in ContributionAmounts,
          contributor \in Contributors :
            contribute_to_budget(contributor, budget_id, amount)
    \/ \E spender \in Spenders, budget_id \in BudgetIds, recipient \in Recipients,
          amount \in SpendAmounts :
            spend_from_budget(spender, budget_id, recipient, amount)
    \/ \E budget_id \in BudgetIds : get_budget(budget_id)

SpecBudgets == Init /\ [][NextBudgets]_vars

SpendCalled(budget_id) ==
    call'.op = "spend_from_budget" /\ call'.budget_id = budget_id

SpendSucceeded(budget_id) == SpendCalled(budget_id) /\ call'.status = "ok"

ContributeSucceeded(budget_id) ==
    /\ call'.op = "contribute_to_budget"
    /\ call'.budget_id = budget_id
    /\ call'.status = "ok"

\* The part of C33 the code keeps: a spend succeeds only for a member and an
\* amount of at most the balance, and takes the amount off the balance; a
\* spend by a non-member or above the balance is rejected, and a rejected
\* spend changes neither the budgets nor the token balances; a contribution
\* adds its amount to balance and total_contributed; and
\* 0 <= balance <= total_contributed in every reachable state.
C33_SpendRules ==
    /\ [](\A id \in DOMAIN budgets :
            /\ 0 <= budgets[id].balance
            /\ budgets[id].balance <= budgets[id].total_contributed)
    /\ [][\A id \in DOMAIN budgets :
            /\ (/\ SpendCalled(id)
                /\ \/ <<id, call'.caller>> \notin budget_members
                   \/ call'.amount > budgets[id].balance)
                    => call'.status # "ok"
            /\ (SpendCalled(id) /\ call'.status # "ok")
                    => (budget_storage' = budget_storage /\ balances' = balances)
            /\ SpendSucceeded(id) =>
                    /\ <<id, call'.caller>> \in budget_members
                    /\ call'.amount <= budgets[id].balance
                    /\ budgets'[id].balance = budgets[id].balance - call'.amount
                    /\ budgets'[id].total_contributed = budgets[id].total_contributed
            /\ ContributeSucceeded(id) =>
                    /\ budgets'[id].balance = budgets[id].balance + call'.amount
                    /\ budgets'[id].total_contributed
                            = budgets[id].total_contributed + call'.amount]_vars

\* C33: spend_from_budget succeeds only for a member of the budget and an
\* amount of at most the balance; a spend by a non-member or above the balance
\* is rejected and leaves the budget unchanged; so in every reachable state
\* 0 <= balance <= total_contributed, and the balance of a budget is the sum
\* of the successful contributions to it minus the sum of the successful
\* spends from it.
C33_SpendWithinBalance ==
    /\ C33_SpendRules
    /\ [](\A id \in DOMAIN budgets :
            budgets[id].balance
                = GetOr0(budget_contributed, id) - GetOr0(budget_spent, id))

----------------------------------------------------------------------------
(* Time-locked transactions.  contracts/timelock.rs holds the record, the  *)
(* error codes, the events and the storage helpers; the operations that    *)
(* schedule, execute and cancel are those of the transactions contract,    *)
(* modelled here from their tests (tests/timelock_tests.rs).  Where the    *)
(* tests do not fix which of several failed checks is reported, the model  *)
(* allows each of them; where nothing says whether a call is refused (the  *)
(* cancellation of an executed transaction), it allows both outcomes.      *)

TimelockError_NotFound == 1
TimelockError_AlreadyExecuted == 2
TimelockError_AlreadyCanceled == 3
TimelockError_EarlyExecution == 4
TimelockError_InvalidScheduleTime == 5
\* The codes the tests expect of a caller who is neither the owner nor the
\* admin, and of an amount that is not positive.
TxError_Unauthorized == 3
TxError_InvalidAmount == 6

\* Transactions scheduled while the model explores.
MaxTimelocks == 2

outside_timelock == <<storage, delegation_storage, recurring_storage,
                      budget_storage, budget_history, fraud_storage, sequence>>

timelock_scheduled(tx) ==
    [event |-> "timelock_scheduled", id |-> tx.id, from |-> tx.from, to |-> tx.to,
     amount |-> tx.amount, asset |-> tx.asset, execute_at |-> tx.execute_at]

timelock_executed(tx, executor) ==
    [event |-> "timelock_executed", id |-> tx.id, executor |-> executor,
     from |-> tx.from, to |-> tx.to, amount |-> tx.amount, asset |-> tx.asset,
     execute_at |-> tx.execute_at, executed_at |-> tx.executed_at]

timelock_cancelled(tx, canceller) ==
    [event |-> "timelock_cancelled", id |-> tx.id, canceller |-> canceller,
     from |-> tx.from, to |-> tx.to, amount |-> tx.amount, asset |-> tx.asset,
     execute_at |-> tx.execute_at, canceled_at |-> tx.canceled_at]

\* next_timelock_id: the stored counter plus one, <<>> when the u64 overflows.
next_timelock_id(current) ==
    IF current + 1 > U64_MAX THEN <<>> ELSE <<current + 1>>

save_timelock(store, tx) == Put(store, tx.id, tx)

get_timelock(store, id) == StoredAt(store, id)

update_timelock(store, tx) == Put(store, tx.id, tx)

\* initialize, explored for the first call only.
tx_initialize(new_admin) ==
    /\ tx_admin = <<>>
    /\ tx_admin' = <<new_admin>>
    /\ call' = [NoCall EXCEPT !.op = "tx_initialize", !.caller = new_admin]
    /\ result' = <<>>
    /\ events' = <<>>
    /\ UNCHANGED <<timelocks, timelock_id_counter, tx_balances, now, outside_timelock>>

\* set_balance, the admin-only setter, explored for the admin.
set_balance(caller, user, amount) ==
    /\ tx_admin = <<caller>>
    /\ tx_balances' = [tx_balances EXCEPT ![user] = amount]
    /\ call' = [NoCall EXCEPT !.op = "set_balance", !.caller = caller,
                              !.user = user, !.amount = amount]
    /\ result' = <<>>
    /\ events' = <<>>
    /\ UNCHANGED <<timelocks, timelock_id_counter, tx_admin, now, outside_timelock>>

schedule_timelocked_transaction(from, to, amount, payload, asset, execute_at) ==
    LET c == [NoCall EXCEPT !.op = "schedule_timelocked_transaction",
                            !.caller = from, !.user = to, !.amount = amount,
                            !.start_time = execute_at]
        id == next_timelock_id(timelock_id_counter)
        failures == (IF execute_at <= now THEN {TimelockError_InvalidScheduleTime} ELSE {})
                    \cup (IF amount <= 0 THEN {TxError_InvalidAmount} ELSE {})
        rejected(code) == /\ call' = Error(c, code)
                          /\ result' = <<>>
                          /\ events' = <<>>
                          /\ UNCHANGED <<timelocks, timelock_id_counter>>
    IN
    /\ timelock_id_counter < MaxTimelocks
    /\ UNCHANGED <<tx_admin, tx_balances, now, outside_timelock>>
    /\ IF failures # {}
       THEN \E code \in failures : rejected(code)
       ELSE IF id = <<>>
       THEN rejected(TimelockError_InvalidScheduleTime)
       ELSE LET tx == [id |-> id[1], from |-> from, to |-> to, amount |-> amount,
                       payload |-> payload, asset |-> asset,
                       execute_at |-> execute_at, created_at |-> now,
                       executed |-> FALSE, canceled |-> FALSE,
                       executed_at |-> <<>>, canceled_at |-> <<>>]
            IN  /\ timelock_id_counter' = id[1]
                /\ timelocks' = save_timelock(timelocks, tx)
                /\ call' = Ok([c EXCEPT !.timelock_id = id[1]])
                /\ result' = <<tx>>
                /\ events' = <<timelock_scheduled(tx)>>

\* The checks that execute and cancel share: the caller is the owner of the
\* transaction or the admin (test_only_owner_or_admin_can_execute,
\* test_only_owner_or_admin_can_cancel), and the transaction is not canceled
\* (test_execute_fails_after_cancellation).
state_failures(tx, caller) ==
    (IF caller # tx.from /\ tx_admin # <<caller>> THEN {TxError_Unauthorized} ELSE {})
    \cup (IF tx.canceled THEN {TimelockError_AlreadyCanceled} ELSE {})

early_execution(tx) == now < tx.execute_at

execute_timelocked_transaction(caller, id) ==
    LET c == [NoCall EXCEPT !.op = "execute_timelocked_transaction",
                            !.caller = caller, !.timelock_id = id]
        stored == get_timelock(timelocks, id)
        rejected(outcome) == /\ call' = outcome
                             /\ result' = <<>>
                             /\ events' = <<>>
                             /\ UNCHANGED <<timelocks, tx_balances>>
    IN
    /\ UNCHANGED <<timelock_id_counter, tx_admin, now, outside_timelock>>
    /\ IF stored = <<>>
       THEN rejected(Error(c, TimelockError_NotFound))
       ELSE LET tx == stored[1]
                failures == state_failures(tx, caller)
                    \cup (IF tx.executed THEN {TimelockError_AlreadyExecuted} ELSE {})
                    \cup (IF early_execution(tx) THEN {TimelockError_EarlyExecution}
                                                 ELSE {})
                done == [tx EXCEPT !.executed = TRUE, !.executed_at = <<now>>]
            IN  IF failures # {}
                THEN \E code \in failures : rejected(Error(c, code))
                ELSE IF tx_balances[tx.from] < tx.amount
                THEN rejected(Panic(c, "insufficient balance"))
                ELSE /\ tx_balances' = [tx_balances EXCEPT ![tx.from] = @ - tx.amount,
                                                           ![tx.to] = @ + tx.amount]
                     /\ timelocks' = update_timelock(timelocks, done)
                     /\ call' = Ok(c)
                     /\ result' = <<>>
                     /\ events' = <<timelock_executed(done, caller)>>

\* cancel_timelocked_transaction.  No test cancels an executed transaction:
\* the call is then either refused with AlreadyExecuted or goes through.
cancel_timelocked_transaction(caller, id) ==
    LET c == [NoCall EXCEPT !.op = "cancel_timelocked_transaction",
                            !.caller = caller, !.timelock_id = id]
        stored == get_timelock(timelocks, id)
        rejected(code) == /\ call' = Error(c, code)
                          /\ result' = <<>>
                          /\ events' = <<>>
                          /\ UNCHANGED timelocks
    IN
    /\ UNCHANGED <<timelock_id_counter, tx_admin, tx_balances, now, outside_timelock>>
    /\ IF stored = <<>>
       THEN rejected(TimelockError_NotFound)
       ELSE LET tx == stored[1]
                failures == state_failures(tx, caller)
                done == [tx EXCEPT !.canceled = TRUE, !.canceled_at = <<now>>]
                cancelled == /\ timelocks' = update_timelock(timelocks, done)
                             /\ call' = Ok(c)
                             /\ result' = <<>>
                             /\ events' = <<timelock_cancelled(done, caller)>>
            IN  IF failures # {}
                THEN \E code \in failures : rejected(code)
                ELSE IF tx.executed
                THEN rejected(TimelockError_AlreadyExecuted) \/ cancelled
                ELSE cancelled

\* get_timelocked_transaction: the stored record, None when there is none.
get_timelocked_transaction(id) ==
    /\ call' = [NoCall EXCEPT !.op = "get_timelocked_transaction", !.timelock_id = id]
    /\ result' = <<get_timelock(timelocks, id)>>
    /\ events' = <<>>
    /\ UNCHANGED <<timelock_storage, now, outside_timelock>>

TimelockCallers == {"alice", "admin", "eve"}
TimelockAmounts == {0, 3}
TimelockIds == 1..MaxTimelocks
ExecuteAts == {0, 2}
TimelockTimes == {1, 2, 3}
SeededBalances == {4}

NextTimelock ==
    \/ \E t \in TimelockTimes : set_timestamp(t)
    \/ tx_initialize("admin")
    \/ \E amount \in SeededBalances : set_balance("admin", "alice", amount)
    \/ \E amount \in TimelockAmounts, execute_at \in ExecuteAts :
            schedule_timelocked_transaction("alice", "bob", amount, "pay", <<>>,
                                            execute_at)
    \/ \E caller \in TimelockCallers, id \in TimelockIds :
            execute_timelocked_transaction(caller, id)
    \/ \E caller \in TimelockCallers, id \in TimelockIds :
            cancel_timelocked_transaction(caller, id)
    \/ \E id \in TimelockIds : get_timelocked_transaction(id)

SpecTimelock == Init /\ [][NextTimelock]_vars

ExecuteCalled(id) ==
    call'.op = "execute_timelocked_transaction" /\ call'.timelock_id = id

CancelSucceeded(id) ==
    /\ call'.op = "cancel_timelocked_transaction"
    /\ call'.timelock_id = id
    /\ call'.status = "ok"

\* What the tests settle of C32: an attempt to execute a transaction while
\* the ledger time is before its execute_at fails and changes nothing, with
\* the early-execution code when the transaction is pending and the caller
\* is its owner or the admin (for the other callers and states the tests do
\* not say which code is reported); a transaction is marked executed only by
\* an execution at or after its execute_at; a successful cancel marks it
\* canceled, a canceled transaction stays canceled, and every later attempt
\* to execute it fails and changes nothing, also after execute_at.
C32_TestedOrder ==
    [][\A id \in DOMAIN timelocks :
            LET tx == timelocks[id] IN
            /\ (ExecuteCalled(id) /\ now < tx.execute_at) =>
                    /\ call'.status = "error"
                    /\ timelocks' = timelocks
                    /\ tx_balances' = tx_balances
            /\ (/\ ExecuteCalled(id)
                /\ now < tx.execute_at
                /\ ~tx.executed
                /\ ~tx.canceled
                /\ call'.caller = tx.from \/ tx_admin = <<call'.caller>>)
                    => call'.code = TimelockError_EarlyExecution
            /\ (~tx.executed /\ timelocks'[id].executed) =>
                    (ExecuteCalled(id) /\ now >= tx.execute_at /\ ~tx.canceled)
            /\ CancelSucceeded(id) => timelocks'[id].canceled
            /\ tx.canceled => timelocks'[id].canceled
            /\ (tx.canceled /\ ExecuteCalled(id)) =>
                    /\ call'.status = "error"
                    /\ timelocks' = timelocks
                    /\ tx_balances' = tx_balances]_vars

\* The rest of C32: in no reachable state is a transaction both executed and
\* canceled.  It holds exactly when the cancellation of an executed
\* transaction is refused, which neither the source nor a test decides.
C32_NeverExecutedAndCanceled ==
    \A id \in DOMAIN timelocks : ~(timelocks[id].executed /\ timelocks[id].canceled)

\* The admin tried to execute a canceled transaction after its execute_at,
\* with the owner's balance covering the amount: the attempt failed and the
\* transaction is still canceled and unexecuted.
C32_Witness ==
    /\ call.op = "execute_timelocked_transaction"
    /\ call.caller = "admin"
    /\ tx_admin = <<"admin">>
    /\ call.status = "error"
    /\ call.code = TimelockError_AlreadyCanceled
    /\ call.timelock_id \in DOMAIN timelocks
    /\ timelocks[call.timelock_id].canceled
    /\ ~timelocks[call.timelock_id].executed
    /\ now > timelocks[call.timelock_id].execute_at
    /\ tx_balances[timelocks[call.timelock_id].from] >= timelocks[call.timelock_id].amount

====
